---- MODULE Spec2Model ----
(***************************************************************************)
(* Model of the gamma-exposure core of simoneb/gex (src/app/utils.ts):     *)
(* format detection, the two aggregators (processLegacyOptions,            *)
(* processCBOEData), the symbol decoder and the selection/filter layer     *)
(* (filterGexData), under Spec together with parseOptionsFile; the flip    *)
(* detectors (findGammaFlips, findGammaFlipPoint) under SpecFlip; the      *)
(* profile builder (calculateGammaProfile) under SpecProfile.              *)
(*                                                                         *)
(* Number representation.  JavaScript numbers that may carry a fraction    *)
(* are kept in fixed point:                                                *)
(*   - strikes and strike windows in thousandths (100000 is strike 100.0), *)
(*     the resolution of the 8-digit strike field of a snapshot symbol;    *)
(*   - gamma in thousandths (1 is 0.001);                                  *)
(*   - exposures (gammaExposure, callGEX, putGEX) in thousandths, being    *)
(*     gamma times whole numbers;                                          *)
(*   - prices, open interest and multipliers are whole numbers.            *)
(* Date strings of fixed width ("YYYYMMDD", "YYYY-MM-DD") are represented  *)
(* by the integer yyyymmdd with the same digits: the lexicographic order   *)
(* of the strings, which Array.prototype.sort() uses, is the numeric order *)
(* of these integers.                                                      *)
(* Objects live in a heap (ref -> fields) so that aliasing and in-place    *)
(* updates (existing.gammaExposure += ...) are visible.  A JavaScript Map  *)
(* is a sequence of [key, val] entries in insertion order.                 *)
(* Quotients (profile levels, the interpolated flip point) are kept exact  *)
(* as [num, den]; implied volatility is in hundredths (20 is 0.20).        *)
(***************************************************************************)
EXTENDS Integers, Sequences, FiniteSets, TLC

\* ---------------------------------------------------------------- bounds
\* Longest input array (legacy records, or snapshot option entries).
MaxRecords == 2

\* ------------------------------------------------------- generic helpers
\* null (of an object-valued field) and NaN (of a number): NaN is an integer
\* outside every range the model computes in.
NULL == [null |-> TRUE]
NaN == 0 - 2000000000
IsNaN(x) == x = NaN

Range(s) == {s[k] : k \in 1..Len(s)}

SeqsUpTo(S, n) == UNION {[1..k -> S] : k \in 0..n}

RECURSIVE SumSeq(_)
SumSeq(s) == IF s = <<>> THEN 0 ELSE Head(s) + SumSeq(Tail(s))

RECURSIVE Flat(_)
\* Array.prototype.flat() of an array of arrays.
Flat(ss) == IF ss = <<>> THEN <<>> ELSE Head(ss) \o Flat(Tail(ss))

RECURSIVE InsertAsc(_, _)
InsertAsc(x, s) ==
  IF s = <<>> THEN <<x>>
  ELSE IF x < Head(s) THEN <<x>> \o s
  ELSE <<Head(s)>> \o InsertAsc(x, Tail(s))

RECURSIVE SortAsc(_)
\* Array.prototype.sort() on fixed-width date strings (ascending, stable).
SortAsc(s) == IF s = <<>> THEN <<>> ELSE InsertAsc(s[Len(s)], SortAsc(SubSeq(s, 1, Len(s) - 1)))

\* ------------------------------------------------------- JavaScript Map
MapHas(m, k) == \E n \in 1..Len(m) : m[n].key = k
MapIndex(m, k) == CHOOSE n \in 1..Len(m) : m[n].key = k
MapGet(m, k) == m[MapIndex(m, k)].val
MapSet(m, k, v) ==
  IF MapHas(m, k)
  THEN [m EXCEPT ![MapIndex(m, k)] = [key |-> k, val |-> v]]
  ELSE Append(m, [key |-> k, val |-> v])
MapKeys(m) == [n \in 1..Len(m) |-> m[n].key]
MapValues(m) == [n \in 1..Len(m) |-> m[n].val]

\* ----------------------------------------------------- calendar (Date)
\* Days since 1970-01-01 of the proleptic Gregorian date y-m-d (m in 1..12).
DaysFromCivil(y, m, d) ==
  LET yy == IF m <= 2 THEN y - 1 ELSE y
      era == yy \div 400
      yoe == yy - era * 400
      mp == IF m > 2 THEN m - 3 ELSE m + 9
      doy == (153 * mp + 2) \div 5 + d - 1
      doe == yoe * 365 + yoe \div 4 - yoe \div 100 + doy
  IN era * 146097 + doe - 719468

\* The calendar date [y, m, d] of a day number.
CivilFromDays(z) ==
  LET zz == z + 719468
      era == zz \div 146097
      doe == zz - era * 146097
      yoe == (doe - doe \div 1460 + doe \div 36524 - doe \div 146096) \div 365
      doy == doe - (365 * yoe + yoe \div 4 - yoe \div 100)
      mp == (5 * doy + 2) \div 153
      d == doy - (153 * mp + 2) \div 5 + 1
      m == IF mp < 10 THEN mp + 3 ELSE mp - 9
  IN [y |-> IF m <= 2 THEN yoe + era * 400 + 1 ELSE yoe + era * 400, m |-> m, d |-> d]

\* new Date(year, monthIndex, day): local midnight of the date, as a day
\* number; out-of-range month indexes and days roll over, NaN anywhere gives
\* an Invalid Date.
NewDate(year, monthIndex, day) ==
  IF year = NaN \/ monthIndex = NaN \/ day = NaN THEN NaN
  ELSE DaysFromCivil(year + monthIndex \div 12, (monthIndex % 12) + 1, 1) + (day - 1)

\* Date.prototype.toISOString().split("T")[0] of a local midnight: the UTC
\* calendar date of that instant, which is the previous day on a host whose
\* clock is ahead of UTC.  RangeError when the Date is invalid.
RangeError == NaN
ToISODate(localDay, hostEast) ==
  IF localDay = NaN THEN RangeError
  ELSE LET c == CivilFromDays(IF hostEast THEN localDay - 1 ELSE localDay)
       IN c.y * 10000 + c.m * 100 + c.d

\* ------------------------------------------------------ strings, parseInt
Digits == <<"0", "1", "2", "3", "4", "5", "6", "7", "8", "9">>
IsDigit(c) == c \in Range(Digits)
DigitVal(c) == (CHOOSE n \in 1..10 : Digits[n] = c) - 1

\* String.prototype.slice(a, b) on a sequence of characters.
Slice(s, a, b) ==
  LET n == Len(s)
      from == IF a < 0 THEN (IF n + a < 0 THEN 0 ELSE n + a) ELSE (IF a > n THEN n ELSE a)
      to == IF b < 0 THEN (IF n + b < 0 THEN 0 ELSE n + b) ELSE (IF b > n THEN n ELSE b)
  IN IF from >= to THEN <<>> ELSE SubSeq(s, from + 1, to)

RECURSIVE DigitsValue(_, _)
DigitsValue(s, acc) ==
  IF s = <<>> \/ ~IsDigit(Head(s)) THEN acc
  ELSE DigitsValue(Tail(s), acc * 10 + DigitVal(Head(s)))

\* parseInt: the value of the leading decimal digits, NaN when there are none
\* (the identifiers of the model hold no white space and no sign).
parseInt(s) == IF s = <<>> \/ ~IsDigit(Head(s)) THEN NaN ELSE DigitsValue(s, 0)

Plus(a, b) == IF a = NaN \/ b = NaN THEN NaN ELSE a + b

\* ---------------------------------------------------- symbol decoder
\* parseCBOEOption, for a host east of UTC or not.  strike is kept in
\* thousandths, so parseInt(strikeStr) / 1000 is represented by the parsed
\* integer itself (00016000 is 16000 thousandths, i.e. 16.0).
parseCBOEOption(option, hostEast) ==
  LET optionStr == option.option
      cp == Slice(optionStr, -9, -8)
      callPut == IF cp = <<>> THEN "" ELSE cp[1]
      expirationStr == Slice(optionStr, -15, -9)
      strikeStr == Slice(optionStr, -8, Len(optionStr))
      year == Plus(2000, parseInt(Slice(expirationStr, 0, 2)))
      month == parseInt(Slice(expirationStr, 2, 4))
      day == parseInt(Slice(expirationStr, 4, 6))
      expirationDate == ToISODate(NewDate(year, Plus(month, -1), day), hostEast)
      strike == parseInt(strikeStr)
  IN IF expirationDate = RangeError
     THEN [threw |-> TRUE]
     ELSE [threw |-> FALSE, strike |-> strike, callPut |-> callPut,
           expirationDate |-> expirationDate]

\* ------------------------------------------------------------- inputs
\* Legacy records (schema A).  data is NULL for a record without measurements.
LegacyDates == {20251017, 20251024}
Strikes == {100000, 110000}
\* Open interest by right: two values for calls, one for puts.
OpenInterests(right) == IF right = "C" THEN {5, 10} ELSE {5}

Contract(date, strike, right) ==
  [symbol |-> "CMG", lastTradeDate |-> date, strike |-> strike, right |-> right,
   multiplier |-> 50]

LegacyRecords ==
  UNION {{[contract |-> Contract(d, k, r),
           data |-> [gamma |-> 1, undPrice |-> 105, openInterest |-> oi]] :
             oi \in OpenInterests(r)} :
           <<d, k, r>> \in LegacyDates \X Strikes \X {"C", "P"}}
  \cup {[contract |-> Contract(20251017, 100000, "C"), data |-> NULL]}

\* Snapshot option identifiers (schema B): root + YYMMDD + C|P + 8 strike digits.
Root == <<"C", "M", "G">>
Oct17 == <<"2", "5", "1", "0", "1", "7">>
Oct24 == <<"2", "5", "1", "0", "2", "4">>
K100 == <<"0", "0", "1", "0", "0", "0", "0", "0">>
K110 == <<"0", "0", "1", "1", "0", "0", "0", "0">>

SymbolsOf(r) == {Root \o d \o <<r>> \o k : <<d, k>> \in {Oct17, Oct24} \X {K100, K110}}
WellFormedSymbols == SymbolsOf("C") \cup SymbolsOf("P")

\* Identifiers off the documented layout: letters in the date field, letters
\* in the strike field, a right that is neither C nor P.
BadDateSymbol == Root \o <<"2", "5", "A", "B", "1", "7">> \o <<"C">> \o K100
BadStrikeSymbol == Root \o Oct17 \o <<"C">> \o <<"A", "B", "C", "D", "E", "F", "G", "H">>
BadRightSymbol == Root \o Oct17 \o <<"X">> \o K100

SnapshotEntries ==
  UNION {{[option |-> sym, open_interest |-> oi, gamma |-> 1, iv |-> 20] :
            <<sym, oi>> \in SymbolsOf(r) \X OpenInterests(r)} : r \in {"C", "P"}}
  \cup {[option |-> sym, open_interest |-> 5, gamma |-> 1, iv |-> 20] :
      sym \in {BadDateSymbol, BadStrikeSymbol, BadRightSymbol}}

\* A parsed JSON value: an array of legacy records, or a snapshot object.
Payloads ==
  {[kind |-> "array", items |-> items] : items \in SeqsUpTo(LegacyRecords, MaxRecords)}
  \cup {[kind |-> "object", symbol |-> "CMG", timestamp |-> "2025-10-15 16:00:00",
         current_price |-> 105, options |-> options] :
           options \in SeqsUpTo(SnapshotEntries, MaxRecords)}

\* Parsed values off both schemas: an array whose first element is null or is
\* not an object, an object whose data.options starts with null, and a value
\* that is neither an array nor an object with data (a number, {}).
SCALAR == [scalar |-> TRUE]
FirstRecord == [contract |-> Contract(20251017, 100000, "C"),
                data |-> [gamma |-> 1, undPrice |-> 105, openInterest |-> 5]]
FirstEntry == [option |-> Root \o Oct17 \o <<"C">> \o K100, open_interest |-> 5,
               gamma |-> 1, iv |-> 20]

IrregularPayloads ==
  {[kind |-> "array", items |-> items] :
     items \in {<<NULL>>, <<NULL, FirstRecord>>, <<SCALAR>>, <<SCALAR, FirstRecord>>}}
  \cup {[kind |-> "object", symbol |-> "CMG", timestamp |-> "2025-10-15 16:00:00",
          current_price |-> 105, options |-> options] :
            options \in {<<NULL>>, <<NULL, FirstEntry>>}}
  \cup {[kind |-> "other"]}

\* No value has been parsed yet.
NoPayload == [kind |-> "none"]

\* A snapshot with the single entry CMG251031C00016000.
ExampleSymbol == Root \o <<"2", "5", "1", "0", "3", "1">> \o <<"C">>
                 \o <<"0", "0", "0", "1", "6", "0", "0", "0">>
ExamplePayloads ==
  {[kind |-> "object", symbol |-> "CMG", timestamp |-> "2025-10-15 16:00:00",
    current_price |-> 105,
    options |-> <<[option |-> ExampleSymbol, open_interest |-> 5, gamma |-> 1,
                   iv |-> 20]>>]}

\* A payload whose elements all have the declared element type.
WellTyped(v) ==
  /\ v.kind \in {"array", "object"}
  /\ LET elts == IF v.kind = "array" THEN v.items ELSE v.options
     IN \A n \in 1..Len(elts) : elts[n] # NULL /\ elts[n] # SCALAR

\* The content of an uploaded file: text JSON.parse rejects with a message, or
\* text that denotes a value.
ParserMessages == {"Unexpected end of JSON input",
                   "Unexpected token 'o', \"not json\" is not valid JSON"}
Texts ==
  {[wellFormed |-> FALSE, message |-> msg] : msg \in ParserMessages}
  \cup {[wellFormed |-> TRUE, value |-> v] : v \in Payloads \cup IrregularPayloads \cup ExamplePayloads}

\* -------------------------------------------------------------- state
VARIABLES
  text,             \* content of the uploaded file, NULL when none is pending
  curve,            \* a profile handed to the flip detectors
  flips,            \* result of findGammaFlips, NULL before
  flipPoint,        \* result of findGammaFlipPoint, NULL before
  dataPoints,       \* the points handed to calculateGammaProfile
  clock,            \* the wall clock, in half days (see the profile builder)
  gammaProfile,     \* arguments and result of the last calculateGammaProfile
                    \* call, NULL before
  lastGammaProfile,      \* those of the call before it, NULL before
  fromInstant,      \* the arguments handed to countBusinessDays
  toInstant,
  businessDays,     \* its result, NULL before
  ui,               \* the state of the GexAnalysis component (its useState
                    \* cells), NULL while it is not mounted
  readers,          \* the FileReaders whose read has not completed
  chosen,           \* the file input's current file, NULL when none
  uploads,          \* number of files chosen so far
  payload,          \* the parsed JSON value handed to the processing entry point,
                    \* NoPayload before the file is parsed
  hostEast,         \* TRUE when the host's time zone is ahead of UTC
  pc,               \* "idle", "legacy" or "cboe" (inside a forEach), "ready",
                    \* "filtered" (a filtered sequence is held), "failed"
  validOptions,     \* processLegacyOptions: options.filter(data != null)
  i,                \* number of forEach iterations done
  underlierPrice,   \* the aggregator's local underlierPrice
  strikeMapByExp,   \* Map<expirationDate, Map<strike, ref>>
  heap,             \* the GexDataPoint objects, by reference
  data,             \* the ProcessedGexData returned, NULL before
  error,            \* message of the Error thrown, "" when none
  warnings,         \* number of console.warn diagnostics
  filterArgs,       \* arguments of the last filterGexData call, NULL before
  filteredData      \* its result: an array of references

flipVars == <<curve, flips, flipPoint>>
profileVars == <<dataPoints, clock, gammaProfile, lastGammaProfile>>
daysVars == <<fromInstant, toInstant, businessDays>>
uiVars == <<ui, readers, chosen, uploads>>
otherVars == <<flipVars, profileVars, daysVars, uiVars>>

vars == <<text, flipVars, profileVars, daysVars, uiVars, payload, hostEast, pc, validOptions, i, underlierPrice, strikeMapByExp,
          heap, data, error, warnings, filterArgs, filteredData>>

aggVars == <<validOptions, i, underlierPrice, strikeMapByExp, heap, data, warnings>>

\* The host zones worth telling apart for a value: only the snapshot schema
\* decodes dates.
HostsFor(v) == IF v.kind = "object" THEN BOOLEAN ELSE {FALSE}

NoFlipCall ==
  /\ curve = <<>>
  /\ flips = NULL
  /\ flipPoint = NULL

NoProfileCall ==
  /\ dataPoints = <<>>
  /\ clock = 0
  /\ gammaProfile = NULL
  /\ lastGammaProfile = NULL

NoDaysCall ==
  /\ fromInstant = 0
  /\ toInstant = 0
  /\ businessDays = NULL

\* The component is not mounted.
NoUI ==
  /\ ui = NULL
  /\ readers = {}
  /\ chosen = NULL
  /\ uploads = 0

\* Either a file has been chosen and its content read, or a caller holds a
\* parsed value.
Init ==
  /\ \/ /\ text = NULL
        /\ payload \in Payloads \cup IrregularPayloads \cup ExamplePayloads
        /\ hostEast \in HostsFor(payload)
        /\ pc = "idle"
     \/ /\ text \in Texts
        /\ payload = NoPayload
        /\ hostEast \in (IF text.wellFormed THEN HostsFor(text.value) ELSE {FALSE})
        /\ pc = "file"
  /\ NoFlipCall
  /\ NoProfileCall
  /\ NoDaysCall
  /\ NoUI
  /\ validOptions = <<>>
  /\ i = 0
  /\ underlierPrice = 0
  /\ strikeMapByExp = <<>>
  /\ heap = <<>>
  /\ data = NULL
  /\ error = ""
  /\ warnings = 0
  /\ filterArgs = NULL
  /\ filteredData = <<>>

\* ------------------------------------------------------ format detection
\* isLegacyFormat: a non-empty array whose first element has a contract with a
\* numeric strike and truthy data (every record of the model has the former).
isLegacyFormat(v) ==
  /\ v.kind = "array"
  /\ Len(v.items) > 0
  /\ v.items[1] # NULL
  /\ v.items[1] # SCALAR
  /\ v.items[1].data # NULL

\* first.contract on a first element that is null: a TypeError.
isLegacyFormatThrows(v) ==
  /\ v.kind = "array"
  /\ Len(v.items) > 0
  /\ v.items[1] = NULL

\* isCBOEFormat: an object with a non-empty data.options whose first element
\* has a string identifier, a numeric current_price and a symbol.
isCBOEFormat(v) ==
  /\ v.kind = "object"
  /\ Len(v.options) > 0

\* obj.data.options[0].option on a first element that is null: a TypeError.
isCBOEFormatThrows(v) ==
  /\ v.kind = "object"
  /\ Len(v.options) > 0
  /\ v.options[1] = NULL

LegacyTypeError == "Cannot read properties of null (reading 'contract')"
CBOETypeError == "Cannot read properties of null (reading 'option')"

\* ------------------------------------------------- dataset construction
\* Mutant: the keys are taken in insertion order, without the sort.
expirationDatesOf_unsorted(m) == MapKeys(m)

\* Array.from(strikeMapByExp.keys()).sort()
expirationDatesOf(m) == SortAsc(MapKeys(m))

\* strikeMapByExp.forEach(... dataPointsByExpiration.set(expirationDate,
\* Array.from(strikeMap.values())))
dataPointsByExpirationOf(m) ==
  [n \in 1..Len(m) |-> [key |-> m[n].key, val |-> MapValues(m[n].val)]]

\* Array.from(dataPointsByExpiration.values()).flat()
allDataPointsOf(byExp) == Flat(MapValues(byExp))

\* (x || 0) on a number: 0 and NaN are falsy.
OrZero(x) == IF x = 0 \/ IsNaN(x) THEN 0 ELSE x

\* --------------------------------------------------- legacy aggregator
\* Mutant: the put-sign rule is dropped.
calculateGammaExposureLegacy_noPutSign(option) ==
  option.data.undPrice * option.data.gamma * option.data.openInterest
    * option.contract.multiplier

calculateGammaExposureLegacy(option) ==
  LET multiplier == option.contract.multiplier
      right == option.contract.right
      gamma == option.data.gamma
      undPrice == option.data.undPrice
      openInterest == option.data.openInterest
      exposure == undPrice * gamma * openInterest * multiplier
  IN IF right = "P" THEN exposure * (-1) ELSE exposure

\* The new strike entry of processLegacyOptions.
LegacyPoint(option, gammaExposure, underlier) ==
  [strike |-> option.contract.strike,
   gammaExposure |-> gammaExposure,
   underlying |-> underlier,
   right |-> option.contract.right,
   openInterest |-> option.data.openInterest,
   multiplier |-> option.contract.multiplier,
   gamma |-> option.data.gamma,
   expirationDate |-> option.contract.lastTradeDate]

\* Mutant: the existing entry is overwritten instead of added to.
AddExposure_replace(h, ref, gammaExposure) ==
  [h EXCEPT ![ref].gammaExposure = gammaExposure]

\* existing.gammaExposure += gammaExposure
AddExposure(h, ref, gammaExposure) ==
  [h EXCEPT ![ref].gammaExposure = @ + gammaExposure]

\* Mutant: the strike map is keyed by (strike, right), so a call and a put of
\* one strike and expiration give two points.
LegacyIteration_keyByRight(st, option, underlier) ==
  LET expirationDate == option.contract.lastTradeDate
      key == <<option.contract.strike, option.contract.right>>
      gammaExposure == calculateGammaExposureLegacy(option)
      byExp == IF MapHas(st.strikeMapByExp, expirationDate)
               THEN st.strikeMapByExp
               ELSE MapSet(st.strikeMapByExp, expirationDate, <<>>)
      strikeMap == MapGet(byExp, expirationDate)
  IN IF MapHas(strikeMap, key)
     THEN [strikeMapByExp |-> byExp,
           heap |-> AddExposure(st.heap, MapGet(strikeMap, key), gammaExposure)]
     ELSE [strikeMapByExp |->
             MapSet(byExp, expirationDate, MapSet(strikeMap, key, Len(st.heap) + 1)),
           heap |-> Append(st.heap, LegacyPoint(option, gammaExposure, underlier))]

\* One iteration of validOptions.forEach: st is [strikeMapByExp, heap].
LegacyIteration(st, option, underlier) ==
  LET expirationDate == option.contract.lastTradeDate
      strike == option.contract.strike
      gammaExposure == calculateGammaExposureLegacy(option)
      byExp == IF MapHas(st.strikeMapByExp, expirationDate)
               THEN st.strikeMapByExp
               ELSE MapSet(st.strikeMapByExp, expirationDate, <<>>)
      strikeMap == MapGet(byExp, expirationDate)
  IN IF MapHas(strikeMap, strike)
     THEN [strikeMapByExp |-> byExp,
           heap |-> AddExposure(st.heap, MapGet(strikeMap, strike), gammaExposure)]
     ELSE [strikeMapByExp |->
             MapSet(byExp, expirationDate, MapSet(strikeMap, strike, Len(st.heap) + 1)),
           heap |-> Append(st.heap, LegacyPoint(option, gammaExposure, underlier))]

HasData(option) == option.data # NULL

\* processLegacyOptions up to the forEach: filter, the empty check, the
\* reference price.
EnterLegacy(options) ==
  LET valid == SelectSeq(options, HasData)
  IN /\ validOptions' = valid
     /\ i' = 0
     /\ strikeMapByExp' = <<>>
     /\ heap' = <<>>
     /\ IF Len(valid) = 0
        THEN /\ pc' = "failed"
             /\ error' = "No valid options data provided"
             /\ underlierPrice' = underlierPrice
        ELSE /\ pc' = "legacy"
             /\ error' = ""
             /\ underlierPrice' = valid[1].data.undPrice
     /\ UNCHANGED <<text, otherVars, payload, hostEast, data, warnings, filterArgs, filteredData>>

LegacyForEach ==
  /\ pc = "legacy"
  /\ i < Len(validOptions)
  /\ LET st == LegacyIteration([strikeMapByExp |-> strikeMapByExp, heap |-> heap],
                               validOptions[i + 1], underlierPrice)
     IN /\ strikeMapByExp' = st.strikeMapByExp
        /\ heap' = st.heap
  /\ i' = i + 1
  /\ UNCHANGED <<text, otherVars, payload, hostEast, pc, validOptions, underlierPrice, data, error,
                 warnings, filterArgs, filteredData>>

LegacyReturn ==
  /\ pc = "legacy"
  /\ i = Len(validOptions)
  /\ LET expirationDates == expirationDatesOf(strikeMapByExp)
         dataPointsByExpiration == dataPointsByExpirationOf(strikeMapByExp)
     IN data' = [date |-> IF expirationDates # <<>>
                          THEN expirationDates[1]
                          ELSE validOptions[1].contract.lastTradeDate,
                 symbol |-> validOptions[1].contract.symbol,
                 dataPoints |-> allDataPointsOf(dataPointsByExpiration),
                 underlierPrice |-> underlierPrice,
                 expirationDates |-> expirationDates,
                 dataPointsByExpiration |-> dataPointsByExpiration,
                 fileFormat |-> "legacy"]
  /\ pc' = "ready"
  /\ UNCHANGED <<text, otherVars, payload, hostEast, validOptions, i, underlierPrice, strikeMapByExp,
                 heap, error, warnings, filterArgs, filteredData>>

\* -------------------------------------------------- snapshot aggregator
\* gamma * open_interest * 100 * spot * spot * 0.01
SnapshotGEX(option, price) ==
  (option.gamma * option.open_interest * 100 * price * price) \div 100

CallGEX(option, price) == SnapshotGEX(option, price)

\* Mutant: the put exposure is not negated.
PutGEX_notNegated(option, price) == SnapshotGEX(option, price)

PutGEX(option, price) == SnapshotGEX(option, price) * (-1)

\* The point processCBOEData creates for a new strike.
SnapshotPoint(strike, expirationDate, underlier) ==
  [strike |-> strike, gammaExposure |-> 0, underlying |-> underlier,
   callGEX |-> 0, putGEX |-> 0, callOpenInt |-> 0, putOpenInt |-> 0,
   callGamma |-> 0, putGamma |-> 0, callIV |-> 0, putIV |-> 0,
   expirationDate |-> expirationDate]

\* The assignments to dataPoint of one entry, the total included.
SetSide(point, callPut, option, price) ==
  LET p == IF callPut = "C"
           THEN [point EXCEPT !.callOpenInt = option.open_interest,
                              !.callGamma = option.gamma,
                              !.callIV = option.iv,
                              !.callGEX = CallGEX(option, price)]
           ELSE [point EXCEPT !.putOpenInt = option.open_interest,
                              !.putGamma = option.gamma,
                              !.putIV = option.iv,
                              !.putGEX = PutGEX(option, price)]
  IN [p EXCEPT !.gammaExposure = OrZero(p.callGEX) + OrZero(p.putGEX)]

\* One iteration of data.data.options.forEach whose identifier decoded to d.
SnapshotIteration(st, option, d, price) ==
  LET byExp == IF MapHas(st.strikeMapByExp, d.expirationDate)
               THEN st.strikeMapByExp
               ELSE MapSet(st.strikeMapByExp, d.expirationDate, <<>>)
      strikeMap == MapGet(byExp, d.expirationDate)
      isNew == ~MapHas(strikeMap, d.strike)
      ref == IF isNew THEN Len(st.heap) + 1 ELSE MapGet(strikeMap, d.strike)
      h == IF isNew
           THEN Append(st.heap, SnapshotPoint(d.strike, d.expirationDate, price))
           ELSE st.heap
  IN [strikeMapByExp |->
        IF isNew THEN MapSet(byExp, d.expirationDate, MapSet(strikeMap, d.strike, ref))
        ELSE byExp,
      heap |-> [h EXCEPT ![ref] = SetSide(h[ref], d.callPut, option, price)]]

EnterCBOE(v) ==
  /\ underlierPrice' = v.current_price
  /\ validOptions' = <<>>
  /\ i' = 0
  /\ strikeMapByExp' = <<>>
  /\ heap' = <<>>
  /\ pc' = "cboe"
  /\ error' = ""
  /\ UNCHANGED <<text, otherVars, payload, hostEast, data, warnings, filterArgs, filteredData>>

CBOEForEach ==
  /\ pc = "cboe"
  /\ i < Len(payload.options)
  /\ LET option == payload.options[i + 1]
         d == parseCBOEOption(option, hostEast)
     IN IF d.threw
        THEN \* catch (e): console.warn("Failed to parse option:", ...)
             /\ warnings' = warnings + 1
             /\ UNCHANGED <<strikeMapByExp, heap>>
        ELSE LET st == SnapshotIteration([strikeMapByExp |-> strikeMapByExp,
                                          heap |-> heap], option, d, underlierPrice)
             IN /\ strikeMapByExp' = st.strikeMapByExp
                /\ heap' = st.heap
                /\ warnings' = warnings
  /\ i' = i + 1
  /\ UNCHANGED <<text, otherVars, payload, hostEast, pc, validOptions, underlierPrice, data, error,
                 filterArgs, filteredData>>

PointGEX(h, ref) == OrZero(h[ref].callGEX) + OrZero(h[ref].putGEX)

CBOEReturn ==
  /\ pc = "cboe"
  /\ i = Len(payload.options)
  /\ LET expirationDates == expirationDatesOf(strikeMapByExp)
         dataPointsByExpiration == dataPointsByExpirationOf(strikeMapByExp)
         allDataPoints == allDataPointsOf(dataPointsByExpiration)
     IN data' = [date |-> payload.timestamp,
                 symbol |-> payload.symbol,
                 dataPoints |-> allDataPoints,
                 underlierPrice |-> underlierPrice,
                 expirationDates |-> expirationDates,
                 dataPointsByExpiration |-> dataPointsByExpiration,
                 fileFormat |-> "cboe",
                 \* in thousandths, before the division by 1e9
                 totalGamma |->
                   SumSeq([n \in 1..Len(allDataPoints) |-> PointGEX(heap, allDataPoints[n])])]
  /\ pc' = "ready"
  /\ UNCHANGED <<text, otherVars, payload, hostEast, validOptions, i, underlierPrice, strikeMapByExp,
                 heap, error, warnings, filterArgs, filteredData>>

\* ------------------------------------------------------- entry points
\* processOptionsData: dispatch on the detected format.
processOptionsData ==
  /\ pc = "idle"
  /\ IF isLegacyFormatThrows(payload) \/ isCBOEFormatThrows(payload)
     THEN /\ pc' = "failed"
          /\ error' = IF isLegacyFormatThrows(payload) THEN LegacyTypeError
                                                       ELSE CBOETypeError
          /\ UNCHANGED <<text, otherVars, payload, hostEast, filterArgs, filteredData>>
          /\ UNCHANGED aggVars
     ELSE IF isLegacyFormat(payload) THEN EnterLegacy(payload.items)
     ELSE IF isCBOEFormat(payload) THEN EnterCBOE(payload)
     ELSE /\ pc' = "failed"
          /\ error' = "Unable to process data: unrecognized format"
          /\ UNCHANGED <<text, otherVars, payload, hostEast, filterArgs, filteredData>>
          /\ UNCHANGED aggVars

\* The exported aggregators called directly on a payload of their type.
processLegacyOptions ==
  /\ pc = "idle"
  /\ payload.kind = "array"
  /\ WellTyped(payload)
  /\ EnterLegacy(payload.items)

processCBOEData ==
  /\ pc = "idle"
  /\ payload.kind = "object"
  /\ WellTyped(payload)
  /\ EnterCBOE(payload)

\* parseOptionsFile: JSON.parse, then the format tests, all inside one try
\* whose catch rethrows any error as "Invalid JSON file: " + its message.
InvalidJSONFile(message) == "Invalid JSON file: " \o message

parseOptionsFile ==
  /\ pc = "file"
  /\ IF ~text.wellFormed
     THEN \* JSON.parse throws a SyntaxError
          /\ pc' = "failed"
          /\ error' = InvalidJSONFile(text.message)
          /\ UNCHANGED <<text, payload>>
     ELSE LET v == text.value
          IN IF isCBOEFormatThrows(v) \/ isLegacyFormatThrows(v)
             THEN /\ pc' = "failed"
                  /\ error' = InvalidJSONFile(IF isCBOEFormatThrows(v)
                                              THEN CBOETypeError ELSE LegacyTypeError)
                  /\ payload' = v
                  /\ text' = text
             ELSE IF isCBOEFormat(v) \/ isLegacyFormat(v)
             THEN /\ pc' = "idle"
                  /\ error' = ""
                  /\ payload' = v
                  /\ text' = NULL
             ELSE /\ pc' = "failed"
                  /\ error' = InvalidJSONFile("Unrecognized JSON format")
                  /\ payload' = v
                  /\ text' = text
  /\ UNCHANGED <<otherVars, hostEast, filterArgs, filteredData>>
  /\ UNCHANGED aggVars

\* ------------------------------------------------ selection / filter
\* Mutant: the point itself is stored (strikeMap.set(point.strike, point)), no
\* copy is made.
CopyPoint_alias(st, ref) ==
  [strikeMap |-> MapSet(st.strikeMap, st.heap[ref].strike, ref), heap |-> st.heap]

\* strikeMap.set(point.strike, { ...point }): a fresh object with the fields
\* of the point.  st is [strikeMap, heap].
CopyPoint(st, ref) ==
  [strikeMap |-> MapSet(st.strikeMap, st.heap[ref].strike, Len(st.heap) + 1),
   heap |-> Append(st.heap, st.heap[ref])]

\* Mutant: a later expiration's exposure replaces the one held.
Accumulate_overwrite(st, ref) ==
  LET existing == MapGet(st.strikeMap, st.heap[ref].strike)
  IN [strikeMap |-> st.strikeMap,
      heap |-> [st.heap EXCEPT ![existing].gammaExposure = st.heap[ref].gammaExposure]]

\* existing.gammaExposure += point.gammaExposure
Accumulate(st, ref) ==
  LET existing == MapGet(st.strikeMap, st.heap[ref].strike)
  IN [strikeMap |-> st.strikeMap,
      heap |-> [st.heap EXCEPT ![existing].gammaExposure = @ + st.heap[ref].gammaExposure]]

\* The body of points.forEach.
FilterPoint(st, ref) ==
  IF MapHas(st.strikeMap, st.heap[ref].strike) THEN Accumulate(st, ref)
  ELSE CopyPoint(st, ref)

RECURSIVE FilterPoints(_, _)
FilterPoints(st, points) ==
  IF points = <<>> THEN st
  ELSE FilterPoints(FilterPoint(st, Head(points)), Tail(points))

RECURSIVE FilterDates(_, _, _)
\* selectedDates.forEach: dates missing from dataPointsByExpiration are skipped.
FilterDates(st, d, dates) ==
  IF dates = <<>> THEN st
  ELSE LET date == Head(dates)
           next == IF MapHas(d.dataPointsByExpiration, date)
                   THEN FilterPoints(st, MapGet(d.dataPointsByExpiration, date))
                   ELSE st
       IN FilterDates(next, d, Tail(dates))

\* Mutant: the lower comparison is turned around (strike <= strikeRangeMin).
InStrikeRange_lowerTurned(strike, strikeRangeMin, strikeRangeMax) ==
  /\ ~IsNaN(strike) /\ ~IsNaN(strikeRangeMin) /\ ~IsNaN(strikeRangeMax)
  /\ strike <= strikeRangeMin
  /\ strike <= strikeRangeMax

\* point.strike >= strikeRangeMin && point.strike <= strikeRangeMax; every
\* comparison with NaN is false.
InStrikeRange(strike, strikeRangeMin, strikeRangeMax) ==
  /\ ~IsNaN(strike) /\ ~IsNaN(strikeRangeMin) /\ ~IsNaN(strikeRangeMax)
  /\ strike >= strikeRangeMin
  /\ strike <= strikeRangeMax

RECURSIVE InsertDesc_ascending(_, _, _)
\* Mutant: the comparator is a.strike - b.strike.
InsertDesc_ascending(h, ref, refs) ==
  IF refs = <<>> THEN <<ref>>
  ELSE IF h[ref].strike < h[Head(refs)].strike THEN <<ref>> \o refs
  ELSE <<Head(refs)>> \o InsertDesc_ascending(h, ref, Tail(refs))

RECURSIVE InsertDesc(_, _, _)
InsertDesc(h, ref, refs) ==
  IF refs = <<>> THEN <<ref>>
  ELSE IF h[ref].strike > h[Head(refs)].strike THEN <<ref>> \o refs
  ELSE <<Head(refs)>> \o InsertDesc(h, ref, Tail(refs))

RECURSIVE SortByStrikeDesc(_, _)
\* .sort((a, b) => b.strike - a.strike), stable
SortByStrikeDesc(h, refs) ==
  IF refs = <<>> THEN <<>>
  ELSE InsertDesc(h, refs[Len(refs)], SortByStrikeDesc(h, SubSeq(refs, 1, Len(refs) - 1)))

\* Mutant: without the early return, an empty selection standing for every
\* expiration date.
filterGexData_emptySelectsAll(d, h, selectedDates, strikeRangeMin, strikeRangeMax) ==
  LET dates == IF Len(selectedDates) = 0 THEN d.expirationDates ELSE selectedDates
      st == FilterDates([strikeMap |-> <<>>, heap |-> h], d, dates)
      InRange(ref) == InStrikeRange(st.heap[ref].strike, strikeRangeMin, strikeRangeMax)
  IN [heap |-> st.heap,
      result |-> SortByStrikeDesc(st.heap, SelectSeq(MapValues(st.strikeMap), InRange))]

\* filterGexData on the heap h: the heap afterwards and the array returned.
filterGexData(d, h, selectedDates, strikeRangeMin, strikeRangeMax) ==
  IF Len(selectedDates) = 0 THEN [heap |-> h, result |-> <<>>]
  ELSE LET st == FilterDates([strikeMap |-> <<>>, heap |-> h], d, selectedDates)
           InRange(ref) ==
             InStrikeRange(st.heap[ref].strike, strikeRangeMin, strikeRangeMax)
       IN [heap |-> st.heap,
           result |-> SortByStrikeDesc(st.heap, SelectSeq(MapValues(st.strikeMap), InRange))]

\* The arguments the filter is called with: any order of any subset of the
\* dataset's dates, a date the dataset lacks, and a date given twice; strike
\* windows around the strikes of the inputs, inverted ones included.
AbsentDate == 20251231
StrikeRangeMins == {95000, 105000, 115000}
StrikeRangeMaxs == {105000, 115000}

RECURSIVE Orderings(_)
Orderings(S) ==
  IF S = {} THEN {<<>>}
  ELSE UNION {{<<x>> \o t : t \in Orderings(S \ {x})} : x \in S}

Selections(dates) ==
  UNION {Orderings(S) : S \in SUBSET dates}
  \cup {<<AbsentDate>>}
  \cup {<<x, x>> : x \in dates}

\* A call of filterGexData by the holder of the dataset.
CallFilterGexData ==
  /\ pc = "ready"
  /\ \E selectedDates \in Selections(Range(data.expirationDates)),
        strikeRangeMin \in StrikeRangeMins, strikeRangeMax \in StrikeRangeMaxs :
       LET r == filterGexData(data, heap, selectedDates, strikeRangeMin, strikeRangeMax)
       IN /\ heap' = r.heap
          /\ filteredData' = r.result
          /\ filterArgs' = [selectedDates |-> selectedDates,
                            strikeRangeMin |-> strikeRangeMin,
                            strikeRangeMax |-> strikeRangeMax]
  /\ pc' = "filtered"
  /\ UNCHANGED <<text, otherVars, payload, hostEast, validOptions, i, underlierPrice,
                 strikeMapByExp, data, error, warnings>>

\* The holder replaces the filtered sequence on the next change of selection
\* or range (useMemo): the objects of the old result become unreachable and
\* their references are reused; the dataset's own objects stay.
ReleaseFilteredData ==
  /\ pc = "filtered"
  /\ heap' = SubSeq(heap, 1, Len(data.dataPoints))
  /\ filteredData' = <<>>
  /\ filterArgs' = NULL
  /\ pc' = "ready"
  /\ UNCHANGED <<text, otherVars, payload, hostEast, validOptions, i, underlierPrice,
                 strikeMapByExp, data, error, warnings>>

Next ==
  \/ parseOptionsFile
  \/ processOptionsData
  \/ processLegacyOptions
  \/ processCBOEData
  \/ LegacyForEach
  \/ LegacyReturn
  \/ CBOEForEach
  \/ CBOEReturn
  \/ CallFilterGexData
  \/ ReleaseFilteredData

Spec == Init /\ [][Next]_vars

\* ------------------------------------------------------ flip detectors
\* A profile is a sequence of points [spot, totalGamma] with ascending spots.
\* The interpolated flip point is a quotient of the inputs: it is kept exact,
\* as [num, den] standing for num / den.
MaxCurve == 3
Gammas == {0 - 5, 0, 3}
SpotAt(n) == 90 + (10 * n)

Curves ==
  UNION {{[n \in 1..len |-> [spot |-> SpotAt(n), totalGamma |-> g[n]]] :
            g \in [1..len -> Gammas]} : len \in 0..MaxCurve}

\* (current < 0 && next > 0) || (current > 0 && next < 0)
SignChanges(current, next) ==
  \/ current < 0 /\ next > 0
  \/ current > 0 /\ next < 0

CrossingIndexes(profile) ==
  LET Crosses(n) == SignChanges(profile[n].totalGamma, profile[n + 1].totalGamma)
  IN SelectSeq([n \in 1..(Len(profile) - 1) |-> n], Crosses)

\* Mutant: the spot of the second point of the pair is pushed.
findGammaFlips_nextSpot(profile) ==
  LET at == CrossingIndexes(profile)
  IN [k \in 1..Len(at) |-> profile[at[k] + 1].spot]

\* findGammaFlips: the spot of the first point of every crossing pair.
findGammaFlips(profile) ==
  LET at == CrossingIndexes(profile)
  IN [k \in 1..Len(at) |-> profile[at[k]].spot]

\* posStrike - ((posStrike - negStrike) * posGamma) / (posGamma - negGamma)
Interpolate(negStrike, posStrike, negGamma, posGamma) ==
  [num |-> (posStrike * (posGamma - negGamma)) - ((posStrike - negStrike) * posGamma),
   den |-> posGamma - negGamma]

\* Mutant: the last crossing pair is interpolated instead of the first.
findGammaFlipPoint_lastCrossing(profile) ==
  LET at == CrossingIndexes(profile)
  IN IF at = <<>> THEN NULL
     ELSE LET n == at[Len(at)]
          IN Interpolate(profile[n].spot, profile[n + 1].spot,
                         profile[n].totalGamma, profile[n + 1].totalGamma)

\* findGammaFlipPoint: the loop returns at the first crossing pair, null after
\* the loop.
findGammaFlipPoint(profile) ==
  LET at == CrossingIndexes(profile)
  IN IF at = <<>> THEN NULL
     ELSE LET n == at[1]
          IN Interpolate(profile[n].spot, profile[n + 1].spot,
                         profile[n].totalGamma, profile[n + 1].totalGamma)

\* No upload is in progress: the state of the aggregation side while the
\* detectors are exercised on their own.
NoUpload ==
  /\ text = NULL
  /\ payload = NoPayload
  /\ hostEast = FALSE
  /\ pc = "off"
  /\ validOptions = <<>>
  /\ i = 0
  /\ underlierPrice = 0
  /\ strikeMapByExp = <<>>
  /\ heap = <<>>
  /\ data = NULL
  /\ error = ""
  /\ warnings = 0
  /\ filterArgs = NULL
  /\ filteredData = <<>>

uploadVars == <<text, payload, hostEast, pc, validOptions, i, underlierPrice,
                strikeMapByExp, heap, data, error, warnings, filterArgs, filteredData>>

InitFlip ==
  /\ NoUpload
  /\ NoProfileCall
  /\ NoDaysCall
  /\ NoUI
  /\ curve \in Curves
  /\ flips = NULL
  /\ flipPoint = NULL

CallFindGammaFlips ==
  /\ flips = NULL
  /\ flips' = [returned |-> findGammaFlips(curve)]
  /\ UNCHANGED <<curve, flipPoint, uploadVars, profileVars, daysVars, uiVars>>

CallFindGammaFlipPoint ==
  /\ flipPoint = NULL
  /\ flipPoint' = [returned |-> findGammaFlipPoint(curve)]
  /\ UNCHANGED <<curve, flips, uploadVars, profileVars, daysVars, uiVars>>

NextFlip ==
  \/ CallFindGammaFlips
  \/ CallFindGammaFlipPoint

SpecFlip == InitFlip /\ [][NextFlip]_vars

\* ------------------------------------------------------ profile builder
\* Instants are counted in half days of local time: 2 * day is the local
\* midnight that starts the day, 2 * day + 1 any later instant of that day.
\* Time to expiry is kept as the number of business days (the code divides
\* it by 252).  calcGammaEx is not evaluated: its result is kept as the
\* term of its arguments, and a sum as the sequence of its signed terms.
MaxPoints == 2
MaxLevels == 2
MaxTicks == 2

\* getDay() of a day number, 0 for Sunday (day 0 is Thursday 1970-01-01).
DayOfWeek(day) == (day + 4) % 7

\* new Date(dateStr + "T00:00:00"): the local midnight of an ISO date.
Midnight(date) ==
  2 * DaysFromCivil(date \div 10000, (date \div 100) % 100, date % 100)

RECURSIVE CountFrom(_, _, _)
CountFrom(current, to, count) ==
  IF current <= to
  THEN CountFrom(current + 2, to,
                 IF DayOfWeek(current \div 2) \notin {0, 6} THEN count + 1 ELSE count)
  ELSE count

\* countBusinessDays(from, to)
countBusinessDays(from, to) == CountFrom(from, to, 0)

\* isThirdFriday(dateStr)
isThirdFriday(date) ==
  /\ DayOfWeek(Midnight(date) \div 2) = 5
  /\ date % 100 >= 15
  /\ date % 100 <= 21

\* calcGammaEx: 0 when T or vol is 0, NaN when the spot is NaN (Math.log of
\* NaN), else the Black-Scholes term.
ZeroGamma == [zero |-> TRUE]
NaNGamma == [nan |-> TRUE]
calcGammaEx(S, K, vol, T, r, q, optType, OI) ==
  IF T = 0 \/ vol = 0 THEN ZeroGamma
  ELSE IF S.den = 0 THEN NaNGamma
  ELSE [S |-> S, K |-> K, vol |-> vol, T |-> T, r |-> r, q |-> q,
        optType |-> optType, OI |-> OI]

\* strikeRange.min + ((strikeRange.max - strikeRange.min) / (numLevels - 1)) * i,
\* exact, as num / den; 0 / 0 is the NaN of numLevels = 1.
Level(range, numLevels, k) ==
  IF numLevels = 1 THEN [num |-> 0, den |-> 0]
  ELSE [num |-> (range.min * (numLevels - 1)) + ((range.max - range.min) * k),
        den |-> numLevels - 1]

RECURSIVE Distinct(_)
\* Array.from(new Set(array))
Distinct(s) ==
  IF s = <<>> THEN <<>>
  ELSE LET rest == Distinct(SubSeq(s, 1, Len(s) - 1))
       IN IF s[Len(s)] \in Range(rest) THEN rest ELSE Append(rest, s[Len(s)])

\* An absent expirationDate (undefined) is 0.
Truthy(date) == date # 0

ProfileExpirationDates(points) ==
  SortAsc(Distinct(SelectSeq([n \in 1..Len(points) |-> points[n].expirationDate], Truthy)))

\* Mutant: the last date is taken.
FirstOrUndefined_last(dates) == IF dates = <<>> THEN 0 ELSE dates[Len(dates)]

\* expirationDates[0], undefined when there is none
FirstOrUndefined(dates) == IF dates = <<>> THEN 0 ELSE dates[1]

Max(a, b) == IF a >= b THEN a ELSE b

\* total += x, total -= x
AddTo(total, x) == Append(total, [sign |-> 1, term |-> x])
SubtractFrom(total, x) == Append(total, [sign |-> 0 - 1, term |-> x])

\* The body of dataPoints.forEach for one point at one level.
ProfileIteration(acc, point, spotLevel, today, nextExpiry, nextMonthlyExp) ==
  LET expDate == IF Truthy(point.expirationDate) THEN Midnight(point.expirationDate) ELSE today
      daysToExp == Max(1, countBusinessDays(today, expDate))
      callGex == calcGammaEx(spotLevel, point.strike, point.callIV, daysToExp, 0, 0,
                             "call", point.callOpenInt)
      putGex == calcGammaEx(spotLevel, point.strike, point.putIV, daysToExp, 0, 0,
                            "put", point.putOpenInt)
      exNext == point.expirationDate # nextExpiry
      exMonthly == point.expirationDate # nextMonthlyExp
      withCall ==
        IF point.callOpenInt # 0 /\ point.callIV # 0 /\ point.callIV > 0
        THEN [acc EXCEPT
                !.totalCallGamma = AddTo(@, callGex),
                !.totalCallGammaExNext = IF exNext THEN AddTo(@, callGex) ELSE @,
                !.totalCallGammaExMonthly = IF exMonthly THEN AddTo(@, callGex) ELSE @]
        ELSE acc
  IN IF point.putOpenInt # 0 /\ point.putIV # 0 /\ point.putIV > 0
     THEN [withCall EXCEPT
             !.totalPutGamma = SubtractFrom(@, putGex),
             !.totalPutGammaExNext = IF exNext THEN SubtractFrom(@, putGex) ELSE @,
             !.totalPutGammaExMonthly = IF exMonthly THEN SubtractFrom(@, putGex) ELSE @]
     ELSE withCall

RECURSIVE ProfileForEach(_, _, _, _, _, _)
ProfileForEach(acc, points, spotLevel, today, nextExpiry, nextMonthlyExp) ==
  IF points = <<>> THEN acc
  ELSE ProfileForEach(ProfileIteration(acc, Head(points), spotLevel, today,
                                       nextExpiry, nextMonthlyExp),
                      Tail(points), spotLevel, today, nextExpiry, nextMonthlyExp)

\* The callback of levels.map for one level; today is its reading of the clock.
ProfileLevel(points, spotLevel, today, nextExpiry, nextMonthlyExp) ==
  LET acc == ProfileForEach([totalCallGamma |-> <<>>, totalPutGamma |-> <<>>,
                             totalCallGammaExNext |-> <<>>, totalPutGammaExNext |-> <<>>,
                             totalCallGammaExMonthly |-> <<>>,
                             totalPutGammaExMonthly |-> <<>>],
                            points, spotLevel, today, nextExpiry, nextMonthlyExp)
  IN [spot |-> spotLevel,
      totalGamma |-> acc.totalCallGamma \o acc.totalPutGamma,
      exNextGamma |-> acc.totalCallGammaExNext \o acc.totalPutGammaExNext,
      exMonthlyGamma |-> acc.totalCallGammaExMonthly \o acc.totalPutGammaExMonthly]

\* calculateGammaProfile; todays[n] is the clock as read for level n.
calculateGammaProfile(points, strikeRange, numLevels, todays) ==
  LET expirationDates == ProfileExpirationDates(points)
      nextExpiry == FirstOrUndefined(expirationDates)
      nextMonthlyExp == FirstOrUndefined(SelectSeq(expirationDates, isThirdFriday))
  IN [n \in 1..numLevels |->
        ProfileLevel(points, Level(strikeRange, numLevels, n - 1), todays[n],
                     nextExpiry, nextMonthlyExp)]

\* Points of a snapshot dataset, and one without an expiration date.
ProfilePoints ==
  {[SnapshotPoint(100000, 20251010, 105) EXCEPT !.callOpenInt = 5, !.callIV = 20],
   [SnapshotPoint(100000, 20251017, 105) EXCEPT !.callOpenInt = 5, !.callIV = 20],
   [SnapshotPoint(100000, 20251024, 105) EXCEPT !.callOpenInt = 5, !.callIV = 20],
   [SnapshotPoint(110000, 20251024, 105) EXCEPT !.putOpenInt = 5, !.putIV = 20],
   [SnapshotPoint(110000, 0, 105) EXCEPT !.putOpenInt = 5, !.putIV = 20]}

StrikeRanges == {[min |-> 100000, max |-> 110000], [min |-> 100000, max |-> 100000]}

\* The first clock reading of the model: Wednesday 2025-10-15, after midnight.
ClockStart == Midnight(20251015) + 1

\* The readings of the clock by the levels of one call: each at or after the
\* one before, the first at or after the clock at the call; the clock ticks
\* at most once while a call runs.
ClockReadings(from, numLevels) ==
  {t \in [1..numLevels -> {u \in from..(from + 1) : u <= ClockStart + MaxTicks}] :
     \A n \in 1..(numLevels - 1) : t[n] <= t[n + 1]}

InitProfile ==
  /\ NoUpload
  /\ NoFlipCall
  /\ NoDaysCall
  /\ NoUI
  /\ dataPoints \in SeqsUpTo(ProfilePoints, MaxPoints)
  /\ clock = ClockStart
  /\ gammaProfile = NULL
  /\ lastGammaProfile = NULL

\* Time passes between calls.
Tick ==
  /\ clock < ClockStart + MaxTicks
  /\ clock' = clock + 1
  /\ UNCHANGED <<dataPoints, gammaProfile, lastGammaProfile, flipVars, uploadVars, daysVars, uiVars>>

\* A call of calculateGammaProfile by the holder of the points; the holder
\* keeps the result before it.
CallCalculateGammaProfile ==
  /\ lastGammaProfile = NULL
  /\ \E strikeRange \in StrikeRanges, numLevels \in 0..MaxLevels :
       \E todays \in ClockReadings(clock, numLevels) :
         /\ gammaProfile' = [strikeRange |-> strikeRange, numLevels |-> numLevels,
                             todays |-> todays,
                        returned |-> calculateGammaProfile(dataPoints, strikeRange,
                                                            numLevels, todays)]
         /\ clock' = IF numLevels = 0 THEN clock ELSE todays[numLevels]
  /\ lastGammaProfile' = gammaProfile
  /\ UNCHANGED <<dataPoints, flipVars, uploadVars, daysVars, uiVars>>

NextProfile ==
  \/ Tick
  \/ CallCalculateGammaProfile

SpecProfile == InitProfile /\ [][NextProfile]_vars

\* ------------------------------------------------- business-day count
\* countBusinessDays on its own, over the instants of MaxSpan days from
\* Monday 2025-10-13: the midnight that starts each day and a later instant
\* of it.
MaxSpan == 8
SpanStart == Midnight(20251013)
Instants == SpanStart..(SpanStart + (2 * MaxSpan) - 1)

InitDays ==
  /\ NoUpload
  /\ NoFlipCall
  /\ NoProfileCall
  /\ NoUI
  /\ fromInstant \in Instants
  /\ toInstant \in Instants
  /\ businessDays = NULL

CallCountBusinessDays ==
  /\ businessDays = NULL
  /\ businessDays' = [returned |-> countBusinessDays(fromInstant, toInstant)]
  /\ UNCHANGED <<fromInstant, toInstant, flipVars, profileVars, uploadVars, uiVars>>

NextDays == CallCountBusinessDays

SpecDays == InitDays /\ [][NextDays]_vars

\* ====================================================================
\* Claims
\* ====================================================================
KeyOf(p) == <<p.expirationDate, p.strike>>

NoSharedKey(refs) ==
  \A a, b \in 1..Len(refs) : a # b => KeyOf(heap[refs[a]]) # KeyOf(heap[refs[b]])

\* C1: the dataset an aggregator returns holds at most one point for each
\* (expirationDate, strike) pair, in dataPoints and in every entry of
\* dataPointsByExpiration.
C1_OnePointPerKey ==
  data # NULL =>
    /\ NoSharedKey(data.dataPoints)
    /\ \A n \in 1..Len(data.dataPointsByExpiration) :
         NoSharedKey(data.dataPointsByExpiration[n].val)

\* The number of raw records that reached the grouping step.
AggregatedCount ==
  IF payload.kind = "array" THEN Len(validOptions) ELSE Len(payload.options) - warnings

\* A dataset built from more records than it has points: records were grouped.
C1_Witness ==
  /\ pc = "ready"
  /\ Len(data.dataPoints) >= 1
  /\ AggregatedCount > Len(data.dataPoints)

\* The signed exposure of a legacy record as the documentation defines it:
\* underlying price x gamma x open interest x multiplier, negated for puts.
SignedExposure(rec) ==
  LET product == rec.data.undPrice * rec.data.gamma * rec.data.openInterest
                   * rec.contract.multiplier
  IN IF rec.contract.right = "P" THEN 0 - product ELSE product

LegacyKey(rec) == <<rec.contract.lastTradeDate, rec.contract.strike>>

RECURSIVE ExposureAtKey(_, _)
\* Sum of the signed exposures of the first n valid records with the key.
ExposureAtKey(key, n) ==
  IF n = 0 THEN 0
  ELSE ExposureAtKey(key, n - 1)
       + (IF LegacyKey(validOptions[n]) = key THEN SignedExposure(validOptions[n]) ELSE 0)

LegacyBuilt == pc = "ready" /\ data.fileFormat = "legacy"

\* Every record's key has a point, and every point carries the sum of the
\* signed exposures of the records with its key.
C2_SumRule ==
  LegacyBuilt =>
    /\ \A n \in 1..Len(validOptions) :
         \E ref \in Range(data.dataPoints) : KeyOf(heap[ref]) = LegacyKey(validOptions[n])
    /\ \A ref \in Range(data.dataPoints) :
         heap[ref].gammaExposure = ExposureAtKey(KeyOf(heap[ref]), Len(validOptions))

\* The same record twice gives exactly double the single-record exposure.
C2_Doubling ==
  (LegacyBuilt /\ Len(validOptions) = 2 /\ validOptions[1] = validOptions[2]) =>
    /\ Len(data.dataPoints) = 1
    /\ heap[data.dataPoints[1]].gammaExposure = 2 * SignedExposure(validOptions[1])

\* The end-to-end example: a call (gamma 0.001, OI 10) and a put (gamma 0.001,
\* OI 5) at strike 100, multiplier 50, underlying 105, same expiration.
ExampleCall(date) ==
  [contract |-> Contract(date, 100000, "C"),
   data |-> [gamma |-> 1, undPrice |-> 105, openInterest |-> 10]]
ExamplePut(date) ==
  [contract |-> Contract(date, 100000, "P"),
   data |-> [gamma |-> 1, undPrice |-> 105, openInterest |-> 5]]
IsExample ==
  /\ LegacyBuilt
  /\ \E date \in LegacyDates : validOptions = <<ExampleCall(date), ExamplePut(date)>>

\* The example yields one point at strike 100 with the given exposure (in
\* thousandths).
ExampleYields(exposure) ==
  IsExample =>
    /\ Len(data.dataPoints) = 1
    /\ heap[data.dataPoints[1]].strike = 100000
    /\ heap[data.dataPoints[1]].gammaExposure = exposure

\* C2 as stated: the sum rule, the doubling, and the example yielding one point
\* with exposure 2625.
C2_Original == C2_SumRule /\ C2_Doubling /\ ExampleYields(2625000)

\* C2 amended: the sum rule, the doubling, and the example yielding one point
\* with exposure 26.25 (52.5 for the call minus 26.25 for the put).
C2_Amended == C2_SumRule /\ C2_Doubling /\ ExampleYields(26250)

C2_Witness == IsExample

\* The exposure of a snapshot entry: gamma x open interest x 100 x price^2 x 0.01.
SnapshotExposure(entry, price) == entry.gamma * entry.open_interest * price * price

\* The side the aggregator files a decoded entry under.
IsCallSide(d) == d.callPut = "C"

\* TRUE when entry n decodes to the key on the given side.
EntryAt(n, key, call) ==
  LET d == parseCBOEOption(payload.options[n], hostEast)
  IN /\ ~d.threw
     /\ <<d.expirationDate, d.strike>> = key
     /\ IsCallSide(d) = call

RECURSIVE SideSum(_, _, _)
\* Sum of the exposures of the first n entries at the key on the given side.
SideSum(key, call, n) ==
  IF n = 0 THEN 0
  ELSE SideSum(key, call, n - 1)
       + (IF EntryAt(n, key, call)
          THEN SnapshotExposure(payload.options[n], payload.current_price) ELSE 0)

\* The exposure of the last of the first n entries at the key on the given
\* side, 0 when there is none.
SideLast(key, call, n) ==
  LET at == {k \in 1..n : EntryAt(k, key, call)}
  IN IF at = {} THEN 0
     ELSE SnapshotExposure(payload.options[CHOOSE k \in at : \A j \in at : j <= k],
                           payload.current_price)

InSnapshotAggregation == payload.kind = "object" /\ pc \in {"cboe", "ready"}

\* C3: in snapshot aggregation repeated entries at one key and side accumulate:
\* after each entry, callGEX and putGEX of every point are the sums over the
\* entries processed so far at its key, and gammaExposure is their total.
C3_Accumulates ==
  InSnapshotAggregation =>
    \A ref \in 1..Len(heap) :
      /\ heap[ref].callGEX = SideSum(KeyOf(heap[ref]), TRUE, i)
      /\ heap[ref].putGEX = 0 - SideSum(KeyOf(heap[ref]), FALSE, i)
      /\ heap[ref].gammaExposure =
           SideSum(KeyOf(heap[ref]), TRUE, i) - SideSum(KeyOf(heap[ref]), FALSE, i)

\* C4: the exposure of a legacy put is the negation of undPrice x gamma x
\* openInterest x multiplier and that of a call is the product itself: a point
\* made from a single record carries exactly that value.
C4_PutSign ==
  (payload.kind = "array" /\ pc \in {"legacy", "ready"}) =>
    \A n \in 1..i :
      LET rec == validOptions[n]
          product == rec.data.undPrice * rec.data.gamma * rec.data.openInterest
                       * rec.contract.multiplier
      IN (\A m \in 1..i : m # n => LegacyKey(validOptions[m]) # LegacyKey(rec)) =>
           \E ref \in 1..Len(heap) :
             /\ KeyOf(heap[ref]) = LegacyKey(rec)
             /\ heap[ref].gammaExposure =
                  (IF rec.contract.right = "P" THEN 0 - product ELSE product)

\* A put has been aggregated into a point of its own.
C4_Witness ==
  /\ payload.kind = "array"
  /\ pc = "legacy"
  /\ i = 1
  /\ validOptions[1].contract.right = "P"
  /\ heap[1].gammaExposure < 0

\* C5: after each entry of snapshot aggregation every point has gammaExposure =
\* callGEX + putGEX, callGEX being the exposure of the call entry at its key
\* (the latest one processed), putGEX the negated exposure of the put entry,
\* and a side without an entry contributing zero.
C5_TotalIsCallPlusPut ==
  InSnapshotAggregation =>
    \A ref \in 1..Len(heap) :
      /\ heap[ref].gammaExposure = heap[ref].callGEX + heap[ref].putGEX
      /\ heap[ref].callGEX = SideLast(KeyOf(heap[ref]), TRUE, i)
      /\ heap[ref].putGEX = 0 - SideLast(KeyOf(heap[ref]), FALSE, i)

\* A point with a call entry and a put entry, mid-aggregation.
C5_Witness ==
  /\ payload.kind = "object"
  /\ pc = "cboe"
  /\ \E ref \in 1..Len(heap) : heap[ref].callGEX > 0 /\ heap[ref].putGEX < 0

\* C6: filterGexData never mutates the dataset it is given: over any sequence
\* of calls the dataset record and every field of every point of it stay as
\* they were.
C6_DatasetImmutable ==
  [][data # NULL =>
       /\ data' = data
       /\ \A ref \in Range(data.dataPoints) : heap'[ref] = heap[ref]]_vars

\* The dataset points with the strike at the selected expirations.
SourcesOf(strike) ==
  {ref \in Range(data.dataPoints) :
     /\ heap[ref].strike = strike
     /\ \E n \in 1..Len(filterArgs.selectedDates) :
          /\ MapHas(data.dataPointsByExpiration, filterArgs.selectedDates[n])
          /\ ref \in Range(MapGet(data.dataPointsByExpiration, filterArgs.selectedDates[n]))}

\* A filtered sequence with a strike that several selected expirations share.
C6_Witness ==
  /\ pc = "filtered"
  /\ \E r \in Range(filteredData) : Cardinality(SourcesOf(heap[r].strike)) >= 2

\* The points (as values) of the held result, and of a call with the same
\* dataset and selection but the window [a, b].
HeldPoints == {heap[r] : r \in Range(filteredData)}
PointsFor(a, b) ==
  LET r == filterGexData(data, SubSeq(heap, 1, Len(data.dataPoints)),
                         filterArgs.selectedDates, a, b)
  IN {r.heap[x] : x \in Range(r.result)}

\* C7 as stated: every point returned for [a, b] is in the result for [a', b']
\* whenever a' <= a and b' <= b.
C7_Original ==
  pc = "filtered" =>
    \A a \in StrikeRangeMins, b \in StrikeRangeMaxs :
      (a <= filterArgs.strikeRangeMin /\ b <= filterArgs.strikeRangeMax) =>
        HeldPoints \subseteq PointsFor(a, b)

\* C7 amended: every point returned for [a, b] is in the result for [a', b']
\* whenever a' <= a and b' >= b.
C7_Amended ==
  pc = "filtered" =>
    \A a \in StrikeRangeMins, b \in StrikeRangeMaxs :
      (a <= filterArgs.strikeRangeMin /\ b >= filterArgs.strikeRangeMax) =>
        HeldPoints \subseteq PointsFor(a, b)

\* A non-empty result that a wider window strictly extends.
C7_Witness ==
  /\ pc = "filtered"
  /\ filteredData # <<>>
  /\ \E a \in StrikeRangeMins, b \in StrikeRangeMaxs :
       /\ a <= filterArgs.strikeRangeMin
       /\ b >= filterArgs.strikeRangeMax
       /\ HeldPoints # PointsFor(a, b)

\* C8: for a non-empty selection the result is strictly descending by strike,
\* holds only strikes of the closed window, and holds every strike of the
\* window that occurs at a selected expiration.
C8_SortedWindowed ==
  (pc = "filtered" /\ filterArgs.selectedDates # <<>>) =>
    /\ \A n \in 1..(Len(filteredData) - 1) :
         heap[filteredData[n]].strike > heap[filteredData[n + 1]].strike
    /\ \A r \in Range(filteredData) :
         /\ filterArgs.strikeRangeMin <= heap[r].strike
         /\ heap[r].strike <= filterArgs.strikeRangeMax
    /\ \A ref \in Range(data.dataPoints) :
         ( /\ SourcesOf(heap[ref].strike) # {}
           /\ ~IsNaN(heap[ref].strike)
           /\ filterArgs.strikeRangeMin <= heap[ref].strike
           /\ heap[ref].strike <= filterArgs.strikeRangeMax )
         => \E r \in Range(filteredData) : heap[r].strike = heap[ref].strike

\* A result of two strikes.
C8_Witness == pc = "filtered" /\ Len(filteredData) >= 2

RECURSIVE ExposureSum(_)
ExposureSum(refs) ==
  IF refs = {} THEN 0
  ELSE LET ref == CHOOSE x \in refs : TRUE
       IN heap[ref].gammaExposure + ExposureSum(refs \ {ref})

IsSet(seq) == \A a, b \in 1..Len(seq) : a # b => seq[a] # seq[b]

\* The position in the selection of the expiration a dataset point is stored at.
SelectionIndex(ref) ==
  CHOOSE n \in 1..Len(filterArgs.selectedDates) :
    /\ MapHas(data.dataPointsByExpiration, filterArgs.selectedDates[n])
    /\ ref \in Range(MapGet(data.dataPointsByExpiration, filterArgs.selectedDates[n]))

\* C9: for a selection that is a set of dates, each returned point carries the
\* sum of the gammaExposure of the dataset points with its strike at the
\* selected expirations, and every other field of the first such point in the
\* order of the selection.
C9_SumAcrossExpirations ==
  (pc = "filtered" /\ IsSet(filterArgs.selectedDates)) =>
    \A r \in Range(filteredData) :
      LET src == SourcesOf(heap[r].strike)
          first == CHOOSE x \in src : \A y \in src : SelectionIndex(x) <= SelectionIndex(y)
      IN /\ src # {}
         /\ heap[r].gammaExposure = ExposureSum(src)
         /\ [heap[r] EXCEPT !.gammaExposure = 0] = [heap[first] EXCEPT !.gammaExposure = 0]

\* A returned point summed from two expirations whose other fields differ.
C9_Witness ==
  /\ pc = "filtered"
  /\ IsSet(filterArgs.selectedDates)
  /\ \E r \in Range(filteredData) :
       \E x, y \in SourcesOf(heap[r].strike) :
         /\ x # y
         /\ heap[x].gammaExposure # heap[y].gammaExposure

\* C10: with an empty selection filterGexData returns the empty sequence, for
\* every dataset and window (inverted ones included), and raises nothing.
C10_EmptySelection ==
  (pc = "filtered" /\ filterArgs.selectedDates = <<>>) =>
    /\ filteredData = <<>>
    /\ error = ""

\* An empty selection on a dataset with a point inside the window.
C10_Witness ==
  /\ pc = "filtered"
  /\ filterArgs.selectedDates = <<>>
  /\ \E ref \in Range(data.dataPoints) :
       InStrikeRange(heap[ref].strike, filterArgs.strikeRangeMin, filterArgs.strikeRangeMax)

\* C11: both flip detectors treat an adjacent pair as a sign change when one
\* value is negative and the other is non-negative, zero counting as
\* non-negative: the pairs (-5, 0) and (0, -5) are reported as crossings.
NegativeToNonNegative(current, next) ==
  \/ current < 0 /\ next >= 0
  \/ current >= 0 /\ next < 0

C11_ZeroCountsAsCrossing ==
  \A n \in 1..(Len(curve) - 1) :
    NegativeToNonNegative(curve[n].totalGamma, curve[n + 1].totalGamma) =>
      /\ flips # NULL => \E k \in 1..Len(flips.returned) : flips.returned[k] = curve[n].spot
      /\ flipPoint # NULL => flipPoint.returned # NULL

\* C12: findGammaFlipPoint returns null when no adjacent pair has values of
\* strictly opposite signs; otherwise it returns the zero of the straight line
\* through the first such pair (x1, g1), (x2, g2), a value within [x1, x2];
\* for the curve (100, -5), (110, 3) it returns 106.25.
OppositeSigns(a, b) == a * b < 0

FirstCrossing(profile) ==
  CHOOSE n \in 1..(Len(profile) - 1) :
    /\ OppositeSigns(profile[n].totalGamma, profile[n + 1].totalGamma)
    /\ \A m \in 1..(n - 1) :
         ~OppositeSigns(profile[m].totalGamma, profile[m + 1].totalGamma)

HasCrossing(profile) ==
  \E n \in 1..(Len(profile) - 1) :
    OppositeSigns(profile[n].totalGamma, profile[n + 1].totalGamma)

\* r = num / den is where the line through (x1, g1) and (x2, g2) is zero:
\* g1 + (g2 - g1) * (r - x1) / (x2 - x1) = 0, cleared of denominators.
ZeroOfLine(r, x1, g1, x2, g2) ==
  /\ r.den # 0
  /\ (g1 * (x2 - x1) * r.den) + ((g2 - g1) * (r.num - (x1 * r.den))) = 0

\* x1 <= num / den <= x2
Within(r, x1, x2) ==
  IF r.den > 0 THEN x1 * r.den <= r.num /\ r.num <= x2 * r.den
               ELSE x1 * r.den >= r.num /\ r.num >= x2 * r.den

ExampleCurve == <<[spot |-> 100, totalGamma |-> 0 - 5], [spot |-> 110, totalGamma |-> 3]>>

C12_FirstCrossingInterpolated ==
  flipPoint # NULL =>
    /\ ~HasCrossing(curve) => flipPoint.returned = NULL
    /\ HasCrossing(curve) =>
         LET n == FirstCrossing(curve)
             r == flipPoint.returned
         IN /\ r # NULL
            /\ ZeroOfLine(r, curve[n].spot, curve[n].totalGamma,
                           curve[n + 1].spot, curve[n + 1].totalGamma)
            /\ Within(r, curve[n].spot, curve[n + 1].spot)
    /\ curve = ExampleCurve =>
         flipPoint.returned.num * 100 = 10625 * flipPoint.returned.den

C12_Witness ==
  /\ curve = ExampleCurve
  /\ flipPoint # NULL
  /\ flipPoint.returned # NULL

\* C13: format detection is total: on every parsed value, an array whose first
\* element is null and an object whose first option is null included, it ends
\* in exactly one of legacy, snapshot or the unrecognized-format error, never
\* in both classifications and never in another failure.
DetectionTypeErrors ==
  {LegacyTypeError, CBOETypeError,
   InvalidJSONFile(LegacyTypeError), InvalidJSONFile(CBOETypeError)}

C13_TotalClassification ==
  /\ error \notin DetectionTypeErrors
  /\ ~(isLegacyFormat(payload) /\ isCBOEFormat(payload))
  /\ (pc = "failed" /\ error = "Unable to process data: unrecognized format") =>
       ~isLegacyFormat(payload) /\ ~isCBOEFormat(payload)

\* C14: parseOptionsFile fails in two distinguishable ways: with the parser's
\* message exactly when the text is not well-formed JSON, and with the
\* unrecognized-format error exactly when the text is well-formed and matches
\* neither schema.
FailedInParse == pc = "failed" /\ text # NULL

C14_TwoFatalOutcomes ==
  FailedInParse =>
    IF text.wellFormed
    THEN error = InvalidJSONFile("Unrecognized JSON format")
    ELSE error = InvalidJSONFile(text.message)

\* C15: for an identifier of the documented layout the decoder returns the
\* strike digits (thousandths), the encoded right and the encoded date
\* 20YY-MM-DD, whatever the host's time zone; CMG251031C00016000 decodes to
\* 16.0, C, 2025-10-31.
AllDigits(s) == \A n \in 1..Len(s) : IsDigit(s[n])

WellFormedId(sym) ==
  /\ Len(sym) >= 15
  /\ AllDigits(Slice(sym, 0 - 15, 0 - 9))
  /\ sym[Len(sym) - 8] \in {"C", "P"}
  /\ AllDigits(Slice(sym, 0 - 8, Len(sym)))
  /\ LET yymmdd == DigitsValue(Slice(sym, 0 - 15, 0 - 9), 0)
         yyyy == 2000 + (yymmdd \div 10000)
         mm == (yymmdd \div 100) % 100
         dd == yymmdd % 100
     IN /\ mm \in 1..12
        /\ dd \in 1..31
        /\ CivilFromDays(DaysFromCivil(yyyy, mm, dd)) = [y |-> yyyy, m |-> mm, d |-> dd]

EncodedDate(sym) == 20000000 + DigitsValue(Slice(sym, 0 - 15, 0 - 9), 0)
EncodedStrike(sym) == DigitsValue(Slice(sym, 0 - 8, Len(sym)), 0)

InSnapshotRun == payload.kind = "object" /\ pc \in {"cboe", "ready", "filtered"}

C15_DecodesIdentifier ==
  InSnapshotRun =>
    \A n \in 1..i :
      LET sym == payload.options[n].option
          d == parseCBOEOption(payload.options[n], hostEast)
      IN WellFormedId(sym) =>
           /\ ~d.threw
           /\ d.strike = EncodedStrike(sym)
           /\ d.callPut = sym[Len(sym) - 8]
           /\ d.expirationDate = EncodedDate(sym)

\* C16: an entry whose identifier cannot be decoded (non-numeric strike field,
\* a right other than C or P, an invalid date) is skipped with a diagnostic:
\* the aggregate is that of the batch with the entry removed.
RECURSIVE SnapshotFold(_, _, _, _)
SnapshotFold(st, entries, east, price) ==
  IF entries = <<>> THEN st
  ELSE LET d == parseCBOEOption(Head(entries), east)
       IN SnapshotFold(IF d.threw THEN st
                       ELSE SnapshotIteration(st, Head(entries), d, price),
                       Tail(entries), east, price)

Decodable(option) == WellFormedId(option.option)

C16_UndecodableSkipped ==
  (payload.kind = "object" /\ pc \in {"cboe", "ready"}) =>
    LET done == SubSeq(payload.options, 1, i)
    IN /\ warnings = Len(done) - Len(SelectSeq(done, Decodable))
       /\ [strikeMapByExp |-> strikeMapByExp, heap |-> heap]
            = SnapshotFold([strikeMapByExp |-> <<>>, heap |-> <<>>],
                           SelectSeq(done, Decodable), hostEast, payload.current_price)

\* C17: through processOptionsData, a legacy array with records without data at
\* any position, the first included, aggregates to the dataset of the array
\* with those records removed.
RECURSIVE LegacyFold(_, _, _)
LegacyFold(st, records, price) ==
  IF records = <<>> THEN st
  ELSE LegacyFold(LegacyIteration(st, Head(records), price), Tail(records), price)

LegacyWithSomeData ==
  /\ payload.kind = "array"
  /\ WellTyped(payload)
  /\ \E n \in 1..Len(payload.items) : payload.items[n].data # NULL

C17_NullDataAnywhere ==
  LegacyWithSomeData =>
    /\ pc # "failed"
    /\ pc \in {"ready", "filtered"} =>
         LET kept == SelectSeq(payload.items, HasData)
             st == LegacyFold([strikeMapByExp |-> <<>>, heap |-> <<>>], kept,
                              kept[1].data.undPrice)
         IN /\ strikeMapByExp = st.strikeMapByExp
            /\ \A n \in 1..Len(st.heap) : heap[n] = st.heap[n]

\* C18: a payload that parses but has no usable record (a legacy array whose
\* records all lack data, a snapshot whose entries all fail to decode) ends in
\* the empty-dataset error, not in a dataset without points and not in
\* another error.
NoUsableRecord ==
  /\ WellTyped(payload)
  /\ \/ /\ payload.kind = "array"
        /\ Len(payload.items) > 0
        /\ \A n \in 1..Len(payload.items) : payload.items[n].data = NULL
     \/ /\ payload.kind = "object"
        /\ Len(payload.options) > 0
        /\ \A n \in 1..Len(payload.options) :
             parseCBOEOption(payload.options[n], hostEast).threw

C18_EmptyDataset ==
  (NoUsableRecord /\ pc \in {"ready", "filtered", "failed"}) =>
    /\ pc = "failed"
    /\ error = "No valid options data provided"

\* C19: the date of the dataset returned by either aggregator is its earliest
\* expiration date, expirationDates[0] (and so not the snapshot's timestamp).
C19_ReferenceDate ==
  (pc \in {"ready", "filtered"} /\ data.expirationDates # <<>>) =>
    /\ data.fileFormat = "cboe" => data.date # payload.timestamp
    /\ data.date = data.expirationDates[1]

\* C20: calculateGammaProfile is a function of its arguments alone: two calls
\* with the same points, range and number of levels return the same sequence,
\* whatever the clock shows at each call and at each level.
SameArguments ==
  /\ gammaProfile # NULL
  /\ lastGammaProfile # NULL
  /\ gammaProfile.strikeRange = lastGammaProfile.strikeRange
  /\ gammaProfile.numLevels = lastGammaProfile.numLevels

C20_Deterministic == SameArguments => gammaProfile.returned = lastGammaProfile.returned

\* C22: the "Total Strikes" figure of the information panel,
\* gexData.dataPoints.length, is the number of unique strikes of the uploaded
\* file, also when a strike occurs at several expiration dates.
TotalStrikes(d) == Len(d.dataPoints)

UniqueStrikes(d, h) == {h[d.dataPoints[n]].strike : n \in 1..Len(d.dataPoints)}

C22_TotalStrikesUnique ==
  pc \in {"ready", "filtered"} =>
    TotalStrikes(data) = Cardinality(UniqueStrikes(data, heap))

\* C23: in a returned dataset expirationDates is strictly ascending and is the
\* key set of dataPointsByExpiration, every point under key d has
\* expirationDate d, and dataPoints holds each point of the per-expiration
\* subsets exactly once and no other point.
StrictlyAscending(s) == \A n \in 1..(Len(s) - 1) : s[n] < s[n + 1]

NoRepeat(s) == \A m, n \in 1..Len(s) : s[m] = s[n] => m = n

C23_DatasetStructure ==
  pc \in {"ready", "filtered"} =>
    LET byExp == data.dataPointsByExpiration
    IN /\ StrictlyAscending(data.expirationDates)
       /\ Range(data.expirationDates) = Range(MapKeys(byExp))
       /\ NoRepeat(MapKeys(byExp))
       /\ \A n \in 1..Len(byExp) : \A ref \in Range(byExp[n].val) :
            heap[ref].expirationDate = byExp[n].key
       /\ NoRepeat(data.dataPoints)
       /\ Range(data.dataPoints) = UNION {Range(byExp[n].val) : n \in 1..Len(byExp)}
       /\ Len(data.dataPoints) = SumSeq([n \in 1..Len(byExp) |-> Len(byExp[n].val)])

\* Two expiration dates, met in descending order in the input.
C23_Witness ==
  /\ pc = "ready"
  /\ Len(data.expirationDates) = 2
  /\ MapKeys(strikeMapByExp) # data.expirationDates
  /\ Len(data.dataPoints) = 2

\* C27: every point filterGexData returns from a snapshot dataset satisfies
\* gammaExposure = callGEX + putGEX, also when several selected expirations
\* share its strike.
C27_FilteredSignConvention ==
  (pc = "filtered" /\ data.fileFormat = "cboe") =>
    \A n \in 1..Len(filteredData) :
      LET point == heap[filteredData[n]]
      IN point.gammaExposure = OrZero(point.callGEX) + OrZero(point.putGEX)

\* C28: the two flip detectors agree on every profile: findGammaFlipPoint
\* returns a value exactly when findGammaFlips returns a non-empty list, the
\* value then lies between the first element of that list and the next spot
\* of the profile, and the divisor of the interpolation is never zero because
\* the two gamma values of a crossing pair differ.
BothDetectorsCalled == flips # NULL /\ flipPoint # NULL

C28_DetectorsAgree ==
  BothDetectorsCalled =>
    /\ flipPoint.returned # NULL <=> flips.returned # <<>>
    /\ flipPoint.returned # NULL =>
         /\ flipPoint.returned.den # 0
         /\ \E n \in 1..(Len(curve) - 1) :
              /\ curve[n].spot = flips.returned[1]
              /\ curve[n].totalGamma # curve[n + 1].totalGamma
              /\ Within(flipPoint.returned, curve[n].spot, curve[n + 1].spot)
    /\ \A n \in 1..(Len(curve) - 1) :
         SignChanges(curve[n].totalGamma, curve[n + 1].totalGamma) =>
           curve[n + 1].totalGamma - curve[n].totalGamma # 0

\* Both detectors have run on a profile whose first crossing is not at its
\* first pair.
C28_Witness ==
  /\ BothDetectorsCalled
  /\ Len(curve) = 3
  /\ flips.returned # <<>>
  /\ flips.returned[1] = curve[2].spot
  /\ flipPoint.returned # NULL

\* C24: for every window and N >= 1 the profile has exactly N points with
\* spots min + (max - min) / (N - 1) * i, the first min and the last max; for
\* N = 1 it has a single level whose spot is min, never a non-numeric one.
IsNumber(q) == q.den # 0

\* q = num / den
EqualsQuotient(q, num, den) == IsNumber(q) /\ q.num * den = num * q.den

C24_EvenLevels ==
  (gammaProfile # NULL /\ gammaProfile.numLevels >= 1) =>
    LET N == gammaProfile.numLevels
        min == gammaProfile.strikeRange.min
        max == gammaProfile.strikeRange.max
        levels == gammaProfile.returned
    IN /\ Len(levels) = N
       /\ EqualsQuotient(levels[1].spot, min, 1)
       /\ N >= 2 =>
            /\ EqualsQuotient(levels[N].spot, max, 1)
            /\ \A n \in 1..N :
                 EqualsQuotient(levels[n].spot,
                                (min * (N - 1)) + ((max - min) * (n - 1)), N - 1)

\* C25: at every level, for points that carry an expiration date (as every
\* point built by the aggregators does), totalGamma less exNextGamma is the
\* contribution of exactly the points at the earliest expiration date, and
\* totalGamma less exMonthlyGamma that of exactly the points at the earliest
\* expiration that is a Friday with day of month in 15..21; with no such
\* expiration exMonthlyGamma = totalGamma, and when the earliest expiration is
\* that Friday exNextGamma = exMonthlyGamma.
AllDated(points) == \A n \in 1..Len(points) : points[n].expirationDate # 0

DatesOf(points) == {points[n].expirationDate : n \in 1..Len(points)}

Earliest(dates) == CHOOSE d \in dates : \A e \in dates : d <= e

FridayOf15To21(date) ==
  /\ (DaysFromCivil(date \div 10000, (date \div 100) % 100, date % 100) + 4) % 7 = 5
  /\ date % 100 \in 15..21

PointsAt(points, dates) ==
  LET At(point) == point.expirationDate \in dates
  IN SelectSeq(points, At)

\* The signed terms of the given points at one level.
Contribution(points, spotLevel, today) ==
  ProfileLevel(points, spotLevel, today, 0 - 1, 0 - 1).totalGamma

Count(x, s) == Cardinality({n \in 1..Len(s) : s[n] = x})

\* whole = part + rest, as sums of terms
SplitsInto(whole, part, rest) ==
  \A x \in Range(whole) \cup Range(part) \cup Range(rest) :
    Count(x, whole) = Count(x, part) + Count(x, rest)

C25_ExclusionSums ==
  (gammaProfile # NULL /\ AllDated(dataPoints)) =>
    LET dates == DatesOf(dataPoints)
        monthlies == {d \in dates : FridayOf15To21(d)}
        next == IF dates = {} THEN {} ELSE {Earliest(dates)}
        monthly == IF monthlies = {} THEN {} ELSE {Earliest(monthlies)}
    IN \A n \in 1..Len(gammaProfile.returned) :
         LET level == gammaProfile.returned[n]
             today == gammaProfile.todays[n]
         IN /\ SplitsInto(level.totalGamma, level.exNextGamma,
                           Contribution(PointsAt(dataPoints, next), level.spot, today))
            /\ SplitsInto(level.totalGamma, level.exMonthlyGamma,
                           Contribution(PointsAt(dataPoints, monthly), level.spot, today))
            /\ monthlies = {} => level.exMonthlyGamma = level.totalGamma
            /\ (next # {} /\ next = monthly) => level.exNextGamma = level.exMonthlyGamma

\* A profile over an earliest expiration that is not a monthly one and a
\* later one that is.
C25_Witness ==
  /\ gammaProfile # NULL
  /\ gammaProfile.numLevels = 2
  /\ DatesOf(dataPoints) = {20251010, 20251017}
  /\ gammaProfile.returned[1].exNextGamma # gammaProfile.returned[1].exMonthlyGamma
  /\ gammaProfile.returned[1].exNextGamma # <<>>

\* C26: countBusinessDays(from, to) is the number of Monday-to-Friday days
\* from the day of from through the day of to, both included, whatever the
\* time of day of either instant: 5 from a Monday to the Friday of that week,
\* 2 from a Friday to the Monday after.
DayOf(instant) == instant \div 2

Weekdays(first, last) == {d \in first..last : DayOfWeek(d) \notin {0, 6}}

C26_InclusiveOfBothDays ==
  businessDays # NULL =>
    businessDays.returned
      = Cardinality(Weekdays(DayOf(fromInstant), DayOf(toInstant)))

\* ------------------------------------------------------- the component
\* GexAnalysis: its useState cells are the fields of ui; strikeRangeMin and
\* strikeRangeMax are whole numbers of dollars, strikes thousandths.
\* parseOptionsFile and processOptionsData as functions of their argument:
\* the value returned, or the Error thrown.
Threw(message) == [threw |-> TRUE, message |-> message]

parseOptionsFileOf(content) ==
  IF ~content.wellFormed THEN Threw(InvalidJSONFile(content.message))
  ELSE LET v == content.value
       IN IF isCBOEFormatThrows(v) THEN Threw(InvalidJSONFile(CBOETypeError))
          ELSE IF isLegacyFormatThrows(v) THEN Threw(InvalidJSONFile(LegacyTypeError))
          ELSE IF isCBOEFormat(v) \/ isLegacyFormat(v)
          THEN [threw |-> FALSE, returned |-> v]
          ELSE Threw(InvalidJSONFile("Unrecognized JSON format"))

\* The object graph of a dataset: the points in place of their references.
Points(h, refs) == [n \in 1..Len(refs) |-> h[refs[n]]]

Graph(d, h) ==
  [d EXCEPT !.dataPoints = Points(h, @),
            !.dataPointsByExpiration =
               [n \in 1..Len(@) |-> [key |-> @[n].key, val |-> Points(h, @[n].val)]]]

processLegacyOptionsOf(options) ==
  LET valid == SelectSeq(options, HasData)
  IN IF Len(valid) = 0 THEN Threw("No valid options data provided")
     ELSE LET price == valid[1].data.undPrice
              st == LegacyFold([strikeMapByExp |-> <<>>, heap |-> <<>>], valid, price)
              expirationDates == expirationDatesOf(st.strikeMapByExp)
              dataPointsByExpiration == dataPointsByExpirationOf(st.strikeMapByExp)
          IN [threw |-> FALSE,
              returned |->
                Graph([date |-> IF expirationDates # <<>>
                                THEN expirationDates[1]
                                ELSE valid[1].contract.lastTradeDate,
                       symbol |-> valid[1].contract.symbol,
                       dataPoints |-> allDataPointsOf(dataPointsByExpiration),
                       underlierPrice |-> price,
                       expirationDates |-> expirationDates,
                       dataPointsByExpiration |-> dataPointsByExpiration,
                       fileFormat |-> "legacy"], st.heap)]

\* CBOEDataset: the object processCBOEData returns, from the maps st that
\* options.forEach has built.
CBOEDataset(v, st) ==
  LET expirationDates == expirationDatesOf(st.strikeMapByExp)
      dataPointsByExpiration == dataPointsByExpirationOf(st.strikeMapByExp)
      allDataPoints == allDataPointsOf(dataPointsByExpiration)
  IN Graph([date |-> v.timestamp,
            symbol |-> v.symbol,
            dataPoints |-> allDataPoints,
            underlierPrice |-> v.current_price,
            expirationDates |-> expirationDates,
            dataPointsByExpiration |-> dataPointsByExpiration,
            fileFormat |-> "cboe",
            totalGamma |->
              SumSeq([n \in 1..Len(allDataPoints) |-> PointGEX(st.heap, allDataPoints[n])])],
           st.heap)

\* The maps are computed once and bound to st.
processCBOEDataOf(v, east) ==
  CHOOSE processed \in
    {[threw |-> FALSE, returned |-> CBOEDataset(v, st)] :
       st \in {SnapshotFold([strikeMapByExp |-> <<>>, heap |-> <<>>], v.options, east,
                            v.current_price)}} : TRUE

processOptionsDataOf(v, east) ==
  IF isLegacyFormatThrows(v) THEN Threw(LegacyTypeError)
  ELSE IF isCBOEFormatThrows(v) THEN Threw(CBOETypeError)
  ELSE IF isLegacyFormat(v) THEN processLegacyOptionsOf(v.items)
  ELSE IF isCBOEFormat(v) THEN processCBOEDataOf(v, east)
  ELSE Threw("Unable to process data: unrecognized format")

\* Math.floor(x * num / den) and Math.ceil(x * num / den); for the prices of
\* the model the double product x * 0.8, x * 1.2, ... rounds to the same
\* integer.
Floor(num, den) == num \div den
Ceil(num, den) == 0 - ((0 - num) \div den)

\* The error cell holds a string or null; null is kept as the empty string,
\* which no message is.
NoError == ""

\* The useState initial values.
InitialState ==
  [gexData |-> NULL, error |-> NoError, selectedDates |-> <<>>,
   strikeRangeMin |-> 0, strikeRangeMax |-> 10000, underlierPrice |-> 0]

\* The files offered to the file input: a snapshot at price 105 with strikes
\* 100 and 110 over two expirations, a legacy file at price 20 with strikes 16
\* and 24, text that is not JSON, and JSON of neither schema.
SnapshotFile ==
  [wellFormed |-> TRUE,
   value |-> [kind |-> "object", symbol |-> "CMG", timestamp |-> "2025-10-15 16:00:00",
              current_price |-> 105,
              options |-> <<[option |-> Root \o Oct17 \o <<"C">> \o K100,
                             open_interest |-> 5, gamma |-> 1, iv |-> 20],
                            [option |-> Root \o Oct24 \o <<"P">> \o K110,
                             open_interest |-> 5, gamma |-> 1, iv |-> 20]>>]]

LegacyFile ==
  [wellFormed |-> TRUE,
   value |-> [kind |-> "array",
              items |-> <<[contract |-> Contract(20251031, 16000, "C"),
                           data |-> [gamma |-> 1, undPrice |-> 20, openInterest |-> 5]],
                          [contract |-> Contract(20251031, 24000, "P"),
                           data |-> [gamma |-> 1, undPrice |-> 20, openInterest |-> 5]]>>]]

Files ==
  {SnapshotFile, LegacyFile,
   [wellFormed |-> FALSE, message |-> "Unexpected end of JSON input"],
   [wellFormed |-> TRUE, value |-> [kind |-> "other"]]}

\* const parsed = parseOptionsFile(content); const processed =
\* processOptionsData(parsed): what the two calls yield for each file, the
\* value returned or the first Error thrown.
Processing ==
  [content \in Files, east \in BOOLEAN |->
     LET parsed == parseOptionsFileOf(content)
     IN IF parsed.threw THEN parsed
        ELSE processOptionsDataOf(parsed.returned, east)]

\* Mutant: the catch clause also drops the dataset (setGexData(null)).
onload_dropsData(state, content, east) ==
  LET processed == Processing[content, east]
  IN IF processed.threw
     THEN [state EXCEPT !.gexData = NULL,
                        !.error = "Error processing file: " \o processed.message]
     ELSE [gexData |-> processed.returned,
           error |-> NoError,
           selectedDates |-> processed.returned.expirationDates,
           strikeRangeMin |-> Floor(processed.returned.underlierPrice * 8, 10),
           strikeRangeMax |-> Ceil(processed.returned.underlierPrice * 12, 10),
           underlierPrice |-> processed.returned.underlierPrice]

\* reader.onload: the component state after the handler has run on the
\* content read.
onload(state, content, east) ==
  LET processed == Processing[content, east]
  IN IF processed.threw
     THEN [state EXCEPT !.error = "Error processing file: " \o processed.message]
     ELSE [gexData |-> processed.returned,
           error |-> NoError,
           selectedDates |-> processed.returned.expirationDates,
           strikeRangeMin |-> Floor(processed.returned.underlierPrice * 8, 10),
           strikeRangeMax |-> Ceil(processed.returned.underlierPrice * 12, 10),
           underlierPrice |-> processed.returned.underlierPrice]

MaxUploads == 2

\* What is typed into a number input, as parseInt reads it: NaN for an empty
\* field.
TypedValues == {NaN, 95, 500}

InitUI ==
  /\ text = NULL
  /\ payload = NoPayload
  /\ hostEast \in BOOLEAN
  /\ pc = "off"
  /\ validOptions = <<>>
  /\ i = 0
  /\ underlierPrice = 0
  /\ strikeMapByExp = <<>>
  /\ heap = <<>>
  /\ data = NULL
  /\ error = ""
  /\ warnings = 0
  /\ filterArgs = NULL
  /\ filteredData = <<>>
  /\ NoFlipCall
  /\ NoProfileCall
  /\ NoDaysCall
  /\ ui = InitialState
  /\ readers = {}
  /\ chosen = NULL
  /\ uploads = 0

notUI == <<flipVars, profileVars, daysVars, uploadVars>>

\* handleFileUpload: a FileReader is created for the file chosen and the read
\* is started.
handleFileUpload ==
  /\ uploads < MaxUploads
  /\ \E file \in Files :
       /\ chosen' = file
       /\ readers' = readers \cup {[file |-> file, n |-> uploads + 1]}
  /\ uploads' = uploads + 1
  /\ UNCHANGED <<ui, notUI>>

\* A read completes and its onload handler runs.
ReaderOnload ==
  /\ \E reader \in readers :
       /\ ui' = onload(ui, reader.file, hostEast)
       /\ readers' = readers \ {reader}
  /\ UNCHANGED <<chosen, uploads, notUI>>

\* The controls are rendered once a dataset is held.
Rendered == ui.gexData # NULL

StrikesOf(points) == {points[n].strike : n \in 1..Len(points)}
MinStrike(points) == CHOOSE k \in StrikesOf(points) : \A l \in StrikesOf(points) : k <= l
MaxStrike(points) == CHOOSE k \in StrikesOf(points) : \A l \in StrikesOf(points) : k >= l

\* The <select multiple>: the selected options, in the order of
\* gexData.expirationDates.
SubSequences(seq) ==
  {SelectSeq(seq, LAMBDA x : x \in S) : S \in SUBSET Range(seq)}

SelectExpirationDates ==
  /\ Rendered
  /\ \E selected \in SubSequences(ui.gexData.expirationDates) :
       ui' = [ui EXCEPT !.selectedDates = selected]
  /\ UNCHANGED <<readers, chosen, uploads, notUI>>

\* A range input with min <= max yields min + k (step 1) up to max; the
\* model takes the two ends of the track.  Thousandths.
TrackEnds(min, max) == {min, min + (1000 * ((max - min) \div 1000))}

Min(a, b) == IF a <= b THEN a ELSE b

MinimumStrikeSlider ==
  /\ Rendered
  /\ LET min == MinStrike(ui.gexData.dataPoints)
         max == ui.strikeRangeMax * 1000
     IN /\ min <= max
        /\ \E value \in TrackEnds(min, max) :
             ui' = [ui EXCEPT !.strikeRangeMin = Max(0, value \div 1000)]
  /\ UNCHANGED <<readers, chosen, uploads, notUI>>

MinimumStrikeInput ==
  /\ Rendered
  /\ \E value \in TypedValues :
       ui' = [ui EXCEPT !.strikeRangeMin =
                Max(0, IF IsNaN(value) \/ value = 0 THEN 0 ELSE value)]
  /\ UNCHANGED <<readers, chosen, uploads, notUI>>

MaximumStrikeSlider ==
  /\ Rendered
  /\ LET min == ui.strikeRangeMin * 1000
         max == MaxStrike(ui.gexData.dataPoints)
     IN /\ min <= max
        /\ \E value \in TrackEnds(min, max) :
             ui' = [ui EXCEPT !.strikeRangeMax = Min(10000, value \div 1000)]
  /\ UNCHANGED <<readers, chosen, uploads, notUI>>

MaximumStrikeInput ==
  /\ Rendered
  /\ \E value \in TypedValues :
       ui' = [ui EXCEPT !.strikeRangeMax =
                Min(10000, IF IsNaN(value) \/ value = 0 THEN 10000 ELSE value)]
  /\ UNCHANGED <<readers, chosen, uploads, notUI>>

\* The quick-range buttons.
QuickRange(min, max) ==
  /\ Rendered
  /\ ui' = [ui EXCEPT !.strikeRangeMin = min, !.strikeRangeMax = max]
  /\ UNCHANGED <<readers, chosen, uploads, notUI>>

Within20Percent ==
  QuickRange(Floor(ui.underlierPrice * 8, 10), Ceil(ui.underlierPrice * 12, 10))

Within10Percent ==
  QuickRange(Floor(ui.underlierPrice * 9, 10), Ceil(ui.underlierPrice * 11, 10))

Within5Percent ==
  QuickRange(Floor(ui.underlierPrice * 95, 100), Ceil(ui.underlierPrice * 105, 100))

AllStrikes ==
  QuickRange(Floor(MinStrike(ui.gexData.dataPoints), 1000),
             Ceil(MaxStrike(ui.gexData.dataPoints), 1000))

NextUI ==
  \/ handleFileUpload
  \/ ReaderOnload
  \/ SelectExpirationDates
  \/ MinimumStrikeSlider
  \/ MinimumStrikeInput
  \/ MaximumStrikeSlider
  \/ MaximumStrikeInput
  \/ Within20Percent
  \/ Within10Percent
  \/ Within5Percent
  \/ AllStrikes

SpecUI == InitUI /\ [][NextUI]_vars

\* C21: when the parsing or the processing of an uploaded file fails, the
\* handler leaves gexData, underlierPrice, selectedDates and the strike range
\* as they were and sets only the error message; when it succeeds the error
\* is cleared.
Fails(content, east) == Processing[content, east].threw

Completes(reader) == reader \in readers /\ readers' = readers \ {reader}

C21_FailedUploadKeepsState ==
  [][\A reader \in readers :
       Completes(reader) =>
         IF Fails(reader.file, hostEast)
         THEN /\ ui'.gexData = ui.gexData
              /\ ui'.underlierPrice = ui.underlierPrice
              /\ ui'.selectedDates = ui.selectedDates
              /\ ui'.strikeRangeMin = ui.strikeRangeMin
              /\ ui'.strikeRangeMax = ui.strikeRangeMax
              /\ ui'.error # NoError
         ELSE ui'.error = NoError]_vars

\* A dataset is still held after a later upload has failed.
C21_Witness ==
  /\ ui # NULL
  /\ ui.gexData # NULL
  /\ ui.error # NoError
  /\ readers = {}

\* C29: once a dataset is held, whatever the controls operated,
\* strikeRangeMin <= strikeRangeMax.
C29_RangeNeverInverted ==
  (ui # NULL /\ ui.gexData # NULL) => ui.strikeRangeMin <= ui.strikeRangeMax

\* C30: once the reads of two files chosen one after the other have
\* completed, the dataset and price shown are those of the file chosen last
\* (when it is a file that processes), whatever the order of the two onload
\* calls; and whenever a dataset is held, underlierPrice is its underlierPrice
\* and the selected dates are among its expiration dates.
ShownFor(file, east) == onload(InitialState, file, east)

LastChosenShown ==
  (uploads >= 2 /\ readers = {} /\ ~Fails(chosen, hostEast)) =>
    /\ ui.gexData = ShownFor(chosen, hostEast).gexData
    /\ ui.underlierPrice = ShownFor(chosen, hostEast).underlierPrice

HeldConsistently ==
  (ui # NULL /\ ui.gexData # NULL) =>
    /\ ui.underlierPrice = ui.gexData.underlierPrice
    /\ Range(ui.selectedDates) \subseteq Range(ui.gexData.expirationDates)

C30_LastChosenFileShown == LastChosenShown /\ HeldConsistently

====
